---- MODULE Spec2Model ----
(***************************************************************************)
(* Model of the storage Manager of quackfs (package storage): files,       *)
(* snapshot layers, versions and chunks kept in the metadata store, and    *)
(* the operations InsertFile, WriteFile, ReadFile, Checkpoint, Truncate    *)
(* and DeleteFile.                                                         *)
(*                                                                         *)
(* Nine specifications:                                                    *)
(*   Spec   one caller, a store that never fails;                          *)
(*   SpecF  one caller, a store whose statements may fail;                 *)
(*   SpecM  one caller, two files and two version tags;                    *)
(*   SpecR  one caller that may replace its manager between calls;         *)
(*   SpecW  one caller that also runs the write subcommand;                *)
(*   SpecT  one caller, the empty string among the version tags;           *)
(*   SpecC  concurrent callers, each call advancing statement by statement; *)
(*   SpecD  concurrent callers, DeleteFile advancing one DELETE at a time; *)
(*   SpecL  concurrent callers under fair scheduling.                      *)
(***************************************************************************)
EXTENDS Integers, Sequences, FiniteSets, TLC

VARIABLES
    db,     \* the metadata store: tables files, snapshot_layers, versions, chunks
    ret,    \* what the last completed call returned, with its arguments
    snap,   \* history: version id -> file, tag and image of the file when sealed
    mu,     \* sm.mu, the manager's sync.RWMutex
    pc,     \* per caller: the statement it is about to execute
    loc,    \* per caller: arguments and local variables of the running call
    lin     \* history, per caller: results its ReadFile would give on each
            \* committed store state seen since the call began

vars == <<db, ret, snap, mu, pc, loc, lin>>

----------------------------------------------------------------------------
(* Inputs and bounds *)

MaxLen == 2         \* longest data of one WriteFile
MaxOff == 2         \* largest offset passed to WriteFile / ReadFile
MaxNewSize == 2     \* largest size passed to Truncate
MaxRead == 4        \* largest size passed to ReadFile
MaxChunks == 3      \* rows of table chunks, one caller and a reliable store
MaxUint == 15       \* largest value of a uint64, scaled to four bits
MaxFileId == 1      \* values drawn from the files id sequence
MaxChunksF == 2     \* rows of table chunks, store whose statements may fail
MaxChunksM == 2     \* rows of table chunks, two files
MaxOffM == 0        \* largest offset passed to WriteFile, two files
MaxNewSizeM == 1    \* largest size passed to Truncate, two files
MaxFileIdM == 2     \* values drawn from the files id sequence, two files
MaxChunksR == 3     \* rows of table chunks, manager replaced between calls
MaxOffR == 1        \* largest offset passed to WriteFile, manager replaced
MaxNewSizeR == 1    \* largest size passed to Truncate, manager replaced
MaxChunksW == 3     \* rows of table chunks, calls and write commands
MaxOffW == 3        \* largest -offset of a write command
GapLimit == 2       \* 1024*1024*10, the largest gap a write command fills, scaled
MaxChunksC == 2     \* rows of table chunks when a concurrent write begins
MaxOffC == 1        \* largest offset passed to WriteFile by concurrent callers

Names == {"a", "b"}

\* the data of a write: n bytes counting up from b, so that the bytes of one
\* write differ from each other and from those of a write starting elsewhere
Ramp(b, n) == [i \in 1..n |-> b + i - 1]

Data == {Ramp(b, n) : b \in {1, 2}, n \in 0..MaxLen}

Max(S) == CHOOSE x \in S : \A y \in S : y <= x
Min(S) == CHOOSE x \in S : \A y \in S : x <= y
min(a, b) == IF a < b THEN a ELSE b

\* a buffer filled with ones
Ones(n) == [i \in 1..n |-> 1]

Zeroes(n) == [i \in 1..n |-> 0]

----------------------------------------------------------------------------
(* Range text: insertChunk formats "[%d,%d)", the readers trim "[)" and    *)
(* split on ",", then strconv.ParseUint each part.  A text is a sequence   *)
(* of one-character strings.                                               *)

Digits == <<"0", "1", "2", "3", "4", "5", "6", "7", "8", "9">>

\* fmt %d of an unsigned value
RECURSIVE FormatUint(_)
FormatUint(n) ==
    IF n < 10 THEN <<Digits[n + 1]>>
    ELSE FormatUint(n \div 10) \o <<Digits[(n % 10) + 1]>>

FormatRange(r) == <<"[">> \o FormatUint(r[1]) \o <<",">> \o FormatUint(r[2]) \o <<")">>

IsDigit(c) == \E i \in 1..10 : Digits[i] = c

DigitValue(c) == (CHOOSE i \in 1..10 : Digits[i] = c) - 1

\* strconv.ParseUint(s, 10, 64): ok = FALSE is the parse error
RECURSIVE ParseDigits(_, _)
ParseDigits(s, acc) ==
    IF s = <<>> THEN acc
    ELSE ParseDigits(Tail(s), acc * 10 + DigitValue(Head(s)))

ParseUint(s) ==
    IF s # <<>> /\ \A i \in 1..Len(s) : IsDigit(s[i])
    THEN [ok |-> TRUE, v |-> ParseDigits(s, 0)]
    ELSE [ok |-> FALSE, v |-> 0]

RECURSIVE TrimLeft(_)
TrimLeft(s) ==
    IF s # <<>> /\ Head(s) \in {"[", ")"} THEN TrimLeft(Tail(s)) ELSE s

RECURSIVE TrimRight(_)
TrimRight(s) ==
    IF s # <<>> /\ s[Len(s)] \in {"[", ")"}
    THEN TrimRight(SubSeq(s, 1, Len(s) - 1)) ELSE s

\* strings.Trim(text, "[)")
Trim(s) == TrimRight(TrimLeft(s))

\* strings.Split(s, ",")
RECURSIVE Split(_)
Split(s) ==
    IF \E i \in 1..Len(s) : s[i] = ","
    THEN LET i == Min({j \in 1..Len(s) : s[j] = ","})
         IN <<SubSeq(s, 1, i - 1)>> \o Split(SubSeq(s, i + 1, Len(s)))
    ELSE <<s>>

\* the range a reader gets from a stored text: skip = TRUE when the text has
\* not two parts (the row is ignored), err = TRUE when a part does not parse
ParseRange(text) ==
    LET parts == Split(Trim(text))
    IN IF Len(parts) # 2 THEN [skip |-> TRUE, err |-> FALSE, r |-> <<0, 0>>]
       ELSE LET lo == ParseUint(parts[1])
                hi == ParseUint(parts[2])
            IN [skip |-> FALSE, err |-> ~(lo.ok /\ hi.ok), r |-> <<lo.v, hi.v>>]

\* lower(file_range) as the store evaluates it
RangeLower(text) == ParseRange(text).r[1]

----------------------------------------------------------------------------
(* Store queries *)

\* a lookup that answers id 1 when no row has the name
GetFileIDByNameOne(d, name) ==
    IF \E f \in d.files : f.name = name
    THEN (CHOOSE f \in d.files : f.name = name).id
    ELSE 1

\* SELECT id FROM files WHERE name = $1; 0 on sql.ErrNoRows
GetFileIDByName(d, name) ==
    IF \E f \in d.files : f.name = name
    THEN (CHOOSE f \in d.files : f.name = name).id
    ELSE 0

\* a query for the first layer of the file, active or not
SelectFirstLayer(d, fileID) ==
    LET ids == {l.id : l \in {x \in d.layers : x.file_id = fileID}}
    IN IF ids = {} THEN 0 ELSE CHOOSE i \in ids : \A j \in ids : i <= j

\* SELECT id FROM snapshot_layers WHERE file_id = $1 AND active = 1
\* ORDER BY id ASC LIMIT 1; 0 stands for sql.ErrNoRows
SelectActiveLayer(d, fileID) ==
    LET ids == {l.id : l \in {x \in d.layers : x.file_id = fileID /\ x.active = 1}}
    IN IF ids = {} THEN 0 ELSE Min(ids)

ChunkIdx(d) == 1..Len(d.chunks)

LayerIdsOfFile(d, fileID) == {l.id : l \in {x \in d.layers : x.file_id = fileID}}

\* calcFileSize over the chunks of the active layer only
calcFileSizeActive(d, fileID) ==
    LET rows == {i \in 1..Len(d.chunks) :
                    d.chunks[i].snapshot_layer_id
                       \in {l.id : l \in {x \in d.layers : x.file_id = fileID /\ x.active = 1}}}
        ends == {d.chunks[i].offset_value + Len(d.chunks[i].data) : i \in rows}
    IN IF ends = {} THEN 0 ELSE CHOOSE e \in ends : \A x \in ends : x <= e

\* SELECT ... WHERE l.file_id = $1; the maximum end of the parsed file ranges
calcFileSize(d, fileID) ==
    LET rows == {i \in ChunkIdx(d) :
                    d.chunks[i].snapshot_layer_id \in LayerIdsOfFile(d, fileID)}
        ranges == {ParseRange(d.chunks[i].file_range) : i \in rows}
        ends == {p.r[2] : p \in {q \in ranges : ~q.skip}}
    IN IF ends = {} THEN 0 ELSE Max(ends \cup {0})

GetLayerBase(d, layerID) ==
    LET rows == {i \in ChunkIdx(d) : d.chunks[i].snapshot_layer_id = layerID}
    IN IF rows = {} THEN 0
       ELSE Min({RangeLower(d.chunks[i].file_range) : i \in rows})

\* calculateRanges recording the file range one byte after the write
calculateRangesShifted(d, layerID, offset, dataSize) ==
    LET baseOffset == GetLayerBase(d, layerID)
        layerStart == IF offset >= baseOffset THEN offset - baseOffset ELSE 0
    IN [layerRange |-> <<layerStart, layerStart + dataSize>>,
        fileRange |-> <<offset + 1, offset + 1 + dataSize>>]

calculateRanges(d, layerID, offset, dataSize) ==
    LET baseOffset == GetLayerBase(d, layerID)
        layerStart == IF offset >= baseOffset THEN offset - baseOffset ELSE 0
    IN [layerRange |-> <<layerStart, layerStart + dataSize>>,
        fileRange |-> <<offset, offset + dataSize>>]

\* a FileSize that always answers 0
FileSizeZero(d, id) == 0

\* FileSize(id): calcFileSize under the read lock
FileSize(d, id) == calcFileSize(d, id)

\* a SizeOf that leaves the active layer out
SizeOfSealed(d, name) ==
    LET fileID == GetFileIDByName(d, name)
        rows == {i \in ChunkIdx(d) :
                    d.chunks[i].snapshot_layer_id
                       \in {l.id : l \in {x \in d.layers : x.file_id = fileID /\ x.active = 0}}}
    IN Max({ParseRange(d.chunks[i].file_range).r[2] : i \in rows} \cup {0})

\* SizeOf(name): the virtual size of the file called name
SizeOf(d, name) == FileSize(d, GetFileIDByName(d, name))

\* an insert that replaces the chunk the layer already has at the offset
insertChunkReplacing(d, layerID, offset, data, layerRange, fileRange) ==
    [d EXCEPT !.chunks =
        Append(SelectSeq(@, LAMBDA c : ~(c.snapshot_layer_id = layerID
                                         /\ c.offset_value = offset)),
               [snapshot_layer_id |-> layerID, offset_value |-> offset, data |-> data,
                layer_range |-> FormatRange(layerRange),
                file_range |-> FormatRange(fileRange)])]

\* INSERT INTO chunks (snapshot_layer_id, offset_value, data, layer_range,
\* file_range) VALUES ($1, $2, $3, $4, $5)
insertChunk(d, layerID, offset, data, layerRange, fileRange) ==
    [d EXCEPT !.chunks = Append(@,
        [snapshot_layer_id |-> layerID, offset_value |-> offset, data |-> data,
         layer_range |-> FormatRange(layerRange),
         file_range |-> FormatRange(fileRange)])]

\* an insert that stores the Active field of the new layer, which is false
insertLayerNotActive(d, fileID) ==
    [d EXCEPT !.layers = @ \cup {[id |-> d.seq.layer, file_id |-> fileID,
                                  active |-> 0, version_id |-> 0]},
              !.seq.layer = @ + 1]

\* INSERT INTO snapshot_layers (file_id, active) VALUES ($1, 1) RETURNING id
insertActiveLayer(d, fileID) ==
    [d EXCEPT !.layers = @ \cup {[id |-> d.seq.layer, file_id |-> fileID,
                                  active |-> 1, version_id |-> 0]},
              !.seq.layer = @ + 1]

\* a files table without the unique constraint on name
FileNameTakenNever(d, name) == FALSE

\* files.name is UNIQUE
FileNameTaken(d, name) == \E f \in d.files : f.name = name

\* a versions table without the unique constraint on tag
VersionTagTakenNever(d, tag) == FALSE

\* versions.tag is UNIQUE
VersionTagTaken(d, tag) == \E v \in d.versions : v.tag = tag

\* INSERT INTO files (name) VALUES ($1) RETURNING id
insertFileRow(d, name) ==
    [d EXCEPT !.files = @ \cup {[id |-> d.seq.file, name |-> name]},
              !.seq.file = @ + 1]

\* INSERT INTO versions (tag) VALUES ($1) RETURNING id
insertVersion(d, tag) ==
    [d EXCEPT !.versions = @ \cup {[id |-> d.seq.version, tag |-> tag]},
              !.seq.version = @ + 1]

\* an UPDATE that sets the version id and leaves the layer active
updateLayerKeepsActive(d, versionID, layerID) ==
    [d EXCEPT !.layers = {IF l.id = layerID
                          THEN [l EXCEPT !.version_id = versionID]
                          ELSE l : l \in @}]

\* UPDATE snapshot_layers SET active = 0, version_id = $1 WHERE id = $2
updateLayer(d, versionID, layerID) ==
    [d EXCEPT !.layers = {IF l.id = layerID
                          THEN [l EXCEPT !.active = 0, !.version_id = versionID]
                          ELSE l : l \in @}]

\* GetAllFiles: SELECT id, name FROM files
GetAllFiles(d) == {[ID |-> f.id, Name |-> f.name] : f \in d.files}

\* tag of a layer through LEFT JOIN versions; "" when version_id is NULL
TagOf(d, l) ==
    IF \E v \in d.versions : v.id = l.version_id
    THEN (CHOOSE v \in d.versions : v.id = l.version_id).tag
    ELSE ""

\* ORDER BY id ASC over a set of ids
RECURSIVE SortAsc(_)
SortAsc(S) ==
    IF S = {} THEN <<>> ELSE <<Min(S)>> \o SortAsc(S \ {Min(S)})

\* the layers of a file ordered by id, each with its Tag
LoadLayersByFileID(d, fileID) ==
    LET ids == SortAsc(LayerIdsOfFile(d, fileID))
        row(id) == CHOOSE l \in d.layers : l.id = id
    IN [k \in 1..Len(ids) |->
           [ID |-> ids[k], FileID |-> fileID,
            VersionID |-> row(ids[k]).version_id, Tag |-> TagOf(d, row(ids[k]))]]

\* an EXISTS query that leaves out the condition on file_id
VersionExistsAnyFile(d, fileID, tag) == \E v \in d.versions : v.tag = tag

\* SELECT EXISTS(... snapshot_layers inner join versions ...
\*   WHERE snapshot_layers.file_id = $1 and versions.tag = $2)
VersionExistsForFile(d, fileID, tag) ==
    \E l \in d.layers : \E v \in d.versions :
        v.id = l.version_id /\ l.file_id = fileID /\ v.tag = tag

\* ORDER BY snapshot_layer_id, offset_value ASC
ChunkKeyLE(c1, c2) ==
    \/ c1.snapshot_layer_id < c2.snapshot_layer_id
    \/ /\ c1.snapshot_layer_id = c2.snapshot_layer_id
       /\ c1.offset_value <= c2.offset_value

\* the row orders the chunk query may return: every permutation of the rows
\* that is sorted by the ORDER BY key (rows with equal keys come in any order)
ChunkOrders(d) ==
    LET n == Len(d.chunks)
    IN {p \in [1..n -> 1..n] :
           /\ \A i, j \in 1..n : i # j => p[i] # p[j]
           /\ \A i, j \in 1..n : i < j => ChunkKeyLE(d.chunks[p[i]], d.chunks[p[j]])}

\* loadChunksBySnapshotLayerID: result[layerID], rows appended in query order
ChunksOfLayer(d, ord, layerID) ==
    LET idx == SelectSeq(ord, LAMBDA i : d.chunks[i].snapshot_layer_id = layerID)
    IN [k \in 1..Len(idx) |-> d.chunks[idx[k]]]

\* the layers a read includes: all of them, or up to the first one tagged version
RECURSIVE FilterLayers(_, _)
FilterLayers(allLayers, version) ==
    IF allLayers = <<>> THEN <<>>
    ELSE IF Head(allLayers).Tag = version THEN <<Head(allLayers)>>
    ELSE <<Head(allLayers)>> \o FilterLayers(Tail(allLayers), version)

\* a version filter that keeps every layer of the file
SelectLayersAll(allLayers, version) == allLayers

SelectLayers(allLayers, version) ==
    IF version # "" THEN FilterLayers(allLayers, version) ELSE allLayers

\* ChunksInOrder visiting the latest layer first
RECURSIVE ChunksInOrderRev(_, _, _)
ChunksInOrderRev(d, ord, layers) ==
    IF layers = <<>> THEN <<>>
    ELSE ChunksInOrderRev(d, ord, Tail(layers)) \o ChunksOfLayer(d, ord, Head(layers).ID)

\* the chunks the merge loops visit, in visiting order
RECURSIVE ChunksInOrder(_, _, _)
ChunksInOrder(d, ord, layers) ==
    IF layers = <<>> THEN <<>>
    ELSE ChunksOfLayer(d, ord, Head(layers).ID) \o ChunksInOrder(d, ord, Tail(layers))

EndOffset(chunk) == chunk.offset_value + Len(chunk.data)

MaxSizeOf(cs) ==
    IF cs = <<>> THEN 0 ELSE Max({EndOffset(cs[i]) : i \in 1..Len(cs)} \cup {0})

\* CopyChunk copying one byte less than the chunk holds
CopyChunkShort(buf, chunk) ==
    LET off == chunk.offset_value
    IN [i \in 1..Len(buf) |->
           IF off < i /\ i < off + Len(chunk.data) THEN chunk.data[i - off] ELSE buf[i]]

\* copy(buf[off:off+len(data)], data), growing buf when the chunk ends beyond it
CopyChunk(buf, chunk) ==
    LET off == chunk.offset_value
        n == IF EndOffset(chunk) <= Len(buf) THEN Len(buf) ELSE EndOffset(chunk)
    IN [i \in 1..n |-> IF off < i /\ i <= off + Len(chunk.data) THEN chunk.data[i - off]
                       ELSE IF i <= Len(buf) THEN buf[i] ELSE 0]

RECURSIVE MergeChunks(_, _)
MergeChunks(buf, cs) ==
    IF cs = <<>> THEN buf ELSE MergeChunks(CopyChunk(buf, Head(cs)), Tail(cs))

\* the buffer ReadFile builds from the selected layers
BuildImage(d, ord, layers) ==
    LET cs == ChunksInOrder(d, ord, layers)
    IN MergeChunks(Zeroes(MaxSizeOf(cs)), cs)

\* end := min(offset+size, uint64(len(buf))), the sum wrapping at the width of
\* a uint64
SliceEnd(buf, offset, size) == min((offset + size) % (MaxUint + 1), Len(buf))

\* make([]byte, end-offset) panics when end-offset wraps around
SlicePanics(buf, offset, size) ==
    offset < Len(buf) /\ SliceEnd(buf, offset, size) < offset

\* the offset and size limits applied to the full content
SliceOf(buf, offset, size) ==
    IF offset >= Len(buf) THEN <<>>
    ELSE SubSeq(buf, offset + 1, SliceEnd(buf, offset, size))

\* what ReadFile returns once buf is built
SliceResult(buf, offset, size) ==
    IF SlicePanics(buf, offset, size)
    THEN [err |-> "panic: makeslice: len out of range", out |-> <<>>]
    ELSE [err |-> "", out |-> SliceOf(buf, offset, size)]

Result(d, err, out) == [db |-> d, err |-> err, out |-> out]

\* a manager that starts from an empty store of its own
NewManagerOwnStore(d) ==
    [db |-> [files |-> {}, layers |-> {}, versions |-> {}, chunks |-> <<>>, seq |-> d.seq],
     mu |-> [w |-> 0, r |-> {}]]

\* NewManager(db, log): the fields of the new Manager, the store handle it is
\* given and a zero sync.RWMutex; it runs no statement on the store
NewManagerRun(d) == [db |-> d, mu |-> [w |-> 0, r |-> {}]]

\* ReadFile; failAt names the store statement that fails (0: none), ord the
\* row order the chunk query returns
ReadFileRun(d, filename, offset, size, version, failAt, ord) ==
    LET hasVersion == version # ""
        id == IF failAt = 1 THEN 0 ELSE GetFileIDByName(d, filename)
        allLayers == LoadLayersByFileID(d, id)
        layers == SelectLayers(allLayers, version)
    IN IF id = 0 THEN Result(d, "file not found", <<>>)
       ELSE IF hasVersion /\ failAt = 2
            THEN Result(d, "failed to check if layer exists", <<>>)
       ELSE IF hasVersion /\ ~VersionExistsForFile(d, id, version)
            THEN Result(d, "version tag not found", <<>>)
       ELSE IF failAt = 3
            THEN Result(d, IF hasVersion THEN "failed to load layers" ELSE "", <<>>)
       ELSE IF failAt = 4
            THEN Result(d, IF hasVersion THEN "failed to load chunks" ELSE "", <<>>)
       ELSE LET r == SliceResult(BuildImage(d, ord, layers), offset, size)
            IN Result(d, r.err, r.out)

\* every result ReadFile may return in store d, over the row orders of the query
ReadOutcomes(d, n, o, s, v) ==
    {[err |-> r.err, out |-> r.out] :
        r \in {ReadFileRun(d, n, o, s, v, 0, ord) : ord \in ChunkOrders(d)}}

\* a write guard that accepts every offset
BeyondFileSizeNever(offset, fileSize) == FALSE

\* a write guard that lets a write start one byte beyond the end
BeyondFileSizeByTwo(offset, fileSize) == offset > fileSize + 1

\* the write guard of WriteFile
BeyondFileSize(offset, fileSize) == offset > fileSize

WriteFileRun(d, filename, data, offset, failAt) ==
    LET fileID == GetFileIDByName(d, filename)
        layerID == SelectActiveLayer(d, fileID)
        fileSize == calcFileSize(d, fileID)
        rg == calculateRanges(d, layerID, offset, Len(data))
    IN IF failAt = 1 THEN Result(d, "failed to get file ID", <<>>)
       ELSE IF fileID = 0 THEN Result(d, "file not found", <<>>)
       ELSE IF failAt = 2 \/ layerID = 0
            THEN Result(d, "failed to query active layer", <<>>)
       ELSE IF failAt = 3 THEN Result(d, "failed to calculate file size", <<>>)
       ELSE IF BeyondFileSize(offset, fileSize)
            THEN Result(d, "write offset is beyond file size", <<>>)
       ELSE IF failAt = 4 THEN Result(d, "failed to calculate ranges", <<>>)
       ELSE IF failAt = 5 THEN Result(d, "failed to record chunk", <<>>)
       ELSE Result(insertChunk(d, layerID, offset, data, rg.layerRange, rg.fileRange),
                   "", <<>>)

InsertFileRun(d, name, failAt) ==
    LET d1 == insertFileRow(d, name)
        fileID == d.seq.file
    IN IF failAt = 1 \/ FileNameTaken(d, name)
       THEN Result(d, "failed to insert new file", <<>>)
       ELSE IF failAt = 2
            THEN Result(d1, "failed to create initial layer for new file", <<>>)
       ELSE Result(insertActiveLayer(d1, fileID), "", <<>>)

\* a rollback that leaves the statements of the transaction in the store
RollbackKeeps(d, tx) == tx

\* tx.Rollback(): the store keeps the rows it had at Begin
Rollback(d, tx) == d

\* tx.Commit(): the rows of the transaction become the store's
Commit(d, tx) == tx

\* Checkpoint: every statement after Begin runs on the transaction; the deferred
\* function rolls back when err is not nil
CheckpointRun(d, filename, version, failAt) ==
    LET fileID == GetFileIDByName(d, filename)
        layerID == SelectActiveLayer(d, fileID)
        versionID == d.seq.version
        tx1 == insertVersion(d, version)
        tx2 == updateLayer(tx1, versionID, layerID)
        tx3 == insertActiveLayer(tx2, fileID)
    IN IF failAt = 1 THEN Result(d, "failed to begin transaction", <<>>)
       ELSE IF failAt = 2 THEN Result(Rollback(d, d), "failed to get file ID", <<>>)
       ELSE IF failAt = 3 \/ layerID = 0
            THEN Result(Rollback(d, d), "failed to query active layer", <<>>)
       ELSE IF failAt = 4 \/ VersionTagTaken(d, version)
            THEN Result(Rollback(d, d), "failed to insert new version", <<>>)
       ELSE IF failAt = 5 THEN Result(Rollback(d, tx1), "failed to commit layer", <<>>)
       ELSE IF failAt = 6 THEN Result(Rollback(d, tx2), "failed to record new layer", <<>>)
       ELSE IF failAt = 7
            THEN Result(Rollback(d, tx3), "failed to commit transaction", <<>>)
       ELSE Result(Commit(d, tx3), "", <<>>)

\* a DELETE FROM chunks without the WHERE clause
deleteChunksAll(d, fileID) == [d EXCEPT !.chunks = <<>>]

\* DELETE FROM chunks WHERE snapshot_layer_id IN (SELECT id FROM snapshot_layers
\* WHERE file_id = $1)
deleteChunks(d, fileID) ==
    [d EXCEPT !.chunks = SelectSeq(@, LAMBDA c :
                            c.snapshot_layer_id \notin LayerIdsOfFile(d, fileID))]

\* DELETE FROM snapshot_layers WHERE file_id = $1
deleteLayers(d, fileID) ==
    [d EXCEPT !.layers = {l \in @ : l.file_id # fileID}]

\* DELETE FROM files WHERE id = $1
deleteFileRow(d, fileID) ==
    [d EXCEPT !.files = {f \in @ : f.id # fileID}]

\* DeleteFile: the deferred function commits when err is nil and rolls back
\* otherwise; the error of Commit is logged and not returned
DeleteFileRun(d, name, failAt) ==
    LET fileID == GetFileIDByName(d, name)
        tx1 == deleteChunks(d, fileID)
        tx2 == deleteLayers(tx1, fileID)
        tx3 == deleteFileRow(tx2, fileID)
    IN IF failAt = 1 THEN Result(d, "failed to begin transaction", <<>>)
       ELSE IF failAt = 2 THEN Result(Rollback(d, d), "failed to retrieve file ID", <<>>)
       ELSE IF fileID = 0 THEN Result(Commit(d, d), "", <<>>)
       ELSE IF failAt = 3 THEN Result(Rollback(d, d), "failed to delete chunks", <<>>)
       ELSE IF failAt = 4 THEN Result(Rollback(d, tx1), "failed to delete layers", <<>>)
       ELSE IF failAt = 5 THEN Result(Rollback(d, tx2), "failed to delete file", <<>>)
       ELSE IF failAt = 6 THEN Result(Rollback(d, tx3), "", <<>>)
       ELSE Result(Commit(d, tx3), "", <<>>)

TruncateRun(d, filename, newSize, failAt) ==
    LET fileID == IF failAt = 1 THEN 0 ELSE GetFileIDByName(d, filename)
        size == FileSize(d, fileID)
        w == WriteFileRun(d, filename, Zeroes(newSize - size), size,
                          IF failAt > 2 THEN failAt - 2 ELSE 0)
    IN IF fileID = 0 THEN Result(d, "file not found", <<>>)
       ELSE IF failAt = 2 THEN Result(d, "failed to calculate file size", <<>>)
       ELSE IF newSize = size THEN Result(d, "", <<>>)
       ELSE IF newSize < size
            THEN Result(d, "new size is smaller than current size", <<>>)
       ELSE IF w.err # "" THEN Result(d, "failed to extend file", <<>>)
       ELSE Result(w.db, "", <<>>)

\* a gap that is the whole target offset
GapSizeFromZero(offset, fileSize) == offset

\* gapSize := *offset - fileSize
GapSize(offset, fileSize) == offset - fileSize

\* executeWriteCommand, the write subcommand of the command line: creates the
\* file when there is none, fills the gap up to the offset with null bytes when
\* -allow-beyond-size is set, then writes the data; log.Fatal ends the process
\* and leaves in the store what the calls before it have done
executeWriteCommandRun(d, fileName, offset, data, allowBeyondSize) ==
    LET fileID == GetFileIDByName(d, fileName)
        ins == InsertFileRun(d, fileName, 0)
        d1 == IF fileID = 0 THEN ins.db ELSE d
        fileSize == SizeOf(d1, fileName)
        gapSize == GapSize(offset, fileSize)
        fillGap == offset > fileSize /\ allowBeyondSize
        fill == WriteFileRun(d1, fileName, Zeroes(gapSize), fileSize, 0)
        d2 == IF fillGap /\ gapSize > 0 THEN fill.db ELSE d1
        w == WriteFileRun(d2, fileName, data, offset, 0)
    IN IF data = <<>> THEN Result(d, "Missing required flag: -data", <<>>)
       ELSE IF fileID = 0 /\ ins.err # "" THEN Result(d, "Failed to create file", <<>>)
       ELSE IF fillGap /\ gapSize > GapLimit
            THEN Result(d1, "Gap size too large, aborting", <<>>)
       ELSE IF fillGap /\ gapSize > 0 /\ fill.err # ""
            THEN Result(d1, "Failed to fill gap with null bytes", <<>>)
       ELSE IF w.err # "" THEN Result(d2, "Failed to write data", <<>>)
       ELSE Result(w.db, "", <<>>)

----------------------------------------------------------------------------
(* Reference image: the effective byte at each offset is the byte of the    *)
(* latest chunk covering it, by layer order and, within a layer, by        *)
(* insertion order.                                                        *)

Covers(c, k) == c.offset_value <= k /\ k < EndOffset(c)

VisibleChunks(d, layerIds) ==
    {i \in ChunkIdx(d) : d.chunks[i].snapshot_layer_id \in layerIds}

Later(d, i, j) ==
    \/ d.chunks[i].snapshot_layer_id > d.chunks[j].snapshot_layer_id
    \/ /\ d.chunks[i].snapshot_layer_id = d.chunks[j].snapshot_layer_id
       /\ i >= j

RefSize(d, layerIds) ==
    Max({EndOffset(d.chunks[i]) : i \in VisibleChunks(d, layerIds)} \cup {0})

RefByte(d, layerIds, k) ==
    LET cov == {i \in VisibleChunks(d, layerIds) : Covers(d.chunks[i], k)}
    IN IF cov = {} THEN 0
       ELSE LET i == CHOOSE x \in cov : \A y \in cov : Later(d, x, y)
            IN d.chunks[i].data[k - d.chunks[i].offset_value + 1]

RefImage(d, layerIds) ==
    [i \in 1..RefSize(d, layerIds) |-> RefByte(d, layerIds, i - 1)]

----------------------------------------------------------------------------
(* One caller: every call runs from its first statement to its return       *)

NoRet == [op |-> "", name |-> "", off |-> 0, size |-> 0, data |-> <<>>, tag |-> "",
          fail |-> 0, err |-> "", out |-> <<>>]

\* the record of a call: its arguments (data of WriteFile, tag of Checkpoint or
\* version of ReadFile), the failing statement, the error and the bytes returned
Ret(op, name, off, size, data, tag, fail, r) ==
    [op |-> op, name |-> name, off |-> off, size |-> size, data |-> data,
     tag |-> tag, fail |-> fail, err |-> r.err, out |-> r.out]

InitDB == [files |-> {}, layers |-> {}, versions |-> {}, chunks |-> <<>>,
           seq |-> [file |-> 1, layer |-> 1, version |-> 1]]

Callers == {1, 2}

\* the frame of a call: its arguments, the values its statements have read so
\* far and, once it has returned, its result
Call(op, name, off, size, data, tag) ==
    [op |-> op, name |-> name, off |-> off, size |-> size, data |-> data, tag |-> tag,
     fileID |-> 0, layerID |-> 0, fileSize |-> 0,
     rg |-> [layerRange |-> <<0, 0>>, fileRange |-> <<0, 0>>],
     layers |-> <<>>, err |-> "", out |-> <<>>]

NoLoc == Call("", "", 0, 0, <<>>, "")

Init ==
    /\ db = InitDB
    /\ ret = NoRet
    /\ snap = <<>>
    /\ mu = [w |-> 0, r |-> {}]
    /\ pc = [p \in Callers |-> "idle"]
    /\ loc = [p \in Callers |-> NoLoc]
    /\ lin = [p \in Callers |-> {}]

InsertFile(name, f, maxFileId) ==
    /\ db.seq.file <= maxFileId \/ FileNameTaken(db, name)
    /\ LET r == InsertFileRun(db, name, f)
       IN /\ db' = r.db
          /\ ret' = Ret("InsertFile", name, 0, 0, <<>>, "", f, r)
    /\ UNCHANGED <<snap, mu, pc, loc, lin>>

WriteFile(filename, data, offset, f, maxChunks) ==
    /\ Len(db.chunks) < maxChunks
    /\ LET r == WriteFileRun(db, filename, data, offset, f)
       IN /\ db' = r.db
          /\ ret' = Ret("WriteFile", filename, offset, Len(data), data, "", f, r)
    /\ UNCHANGED <<snap, mu, pc, loc, lin>>

ReadFile(filename, offset, size, version, f) ==
    /\ \E ord \in ChunkOrders(db) :
          LET r == ReadFileRun(db, filename, offset, size, version, f, ord)
          IN ret' = Ret("ReadFile", filename, offset, size, <<>>, version, f, r)
    /\ UNCHANGED <<db, snap, mu, pc, loc, lin>>

Checkpoint(filename, version, f) ==
    /\ LET r == CheckpointRun(db, filename, version, f)
           fileID == GetFileIDByName(db, filename)
       IN /\ db' = r.db
          /\ ret' = Ret("Checkpoint", filename, 0, 0, <<>>, version, f, r)
          /\ snap' = IF r.err = ""
                     THEN Append(snap, [file |-> fileID, tag |-> version,
                                        image |-> RefImage(db, LayerIdsOfFile(db, fileID))])
                     ELSE snap
    /\ UNCHANGED <<mu, pc, loc, lin>>

Truncate(filename, newSize, f, maxChunks) ==
    /\ Len(db.chunks) < maxChunks
    /\ LET r == TruncateRun(db, filename, newSize, f)
       IN /\ db' = r.db
          /\ ret' = Ret("Truncate", filename, 0, newSize, <<>>, "", f, r)
    /\ UNCHANGED <<snap, mu, pc, loc, lin>>

DeleteFile(name, f) ==
    /\ LET r == DeleteFileRun(db, name, f)
       IN /\ db' = r.db
          /\ ret' = Ret("DeleteFile", name, 0, 0, <<>>, "", f, r)
    /\ UNCHANGED <<snap, mu, pc, loc, lin>>

\* the caller drops its manager and constructs a new one on the same store
NewManager ==
    /\ LET sm == NewManagerRun(db)
       IN /\ db' = sm.db
          /\ mu' = sm.mu
    /\ ret' = Ret("NewManager", "", 0, 0, <<>>, "", 0, [err |-> "", out |-> <<>>])
    /\ UNCHANGED <<snap, pc, loc, lin>>

\* one run of the write subcommand; the call is recorded under the name of the
\* subcommand, followed by the flag when it is set
executeWriteCommand(fileName, offset, data, allowBeyondSize, maxChunks, maxFileId) ==
    /\ Len(db.chunks) + 2 <= maxChunks
    /\ db.seq.file <= maxFileId \/ FileNameTaken(db, fileName)
    /\ LET r == executeWriteCommandRun(db, fileName, offset, data, allowBeyondSize)
       IN /\ db' = r.db
          /\ ret' = Ret(IF allowBeyondSize THEN "write -allow-beyond-size" ELSE "write",
                        fileName, offset, Len(data), data, "", 0, r)
    /\ UNCHANGED <<snap, mu, pc, loc, lin>>

\* the calls of one caller.  P.fail: the statements that may fail (0: none),
\* P.names and P.tags: the file names and version tags passed in, P.reads: the
\* <<offset, size>> pairs passed to ReadFile, P.chunks and P.files: the caps on
\* chunk rows and on file ids
NextOps(P) ==
    \/ \E n \in P.names, f \in P.fail \cap 0..2 : InsertFile(n, f, P.files)
    \/ \E n \in P.names, d \in P.data, o \in P.offs, f \in P.fail \cap 0..5 :
          WriteFile(n, d, o, f, P.chunks)
    \/ \E n \in P.names, rd \in P.reads, v \in P.tags \cup {""},
          f \in P.fail \cap 0..4 : ReadFile(n, rd[1], rd[2], v, f)
    \/ \E n \in P.names, t \in P.tags, f \in P.fail \cap 0..7 : Checkpoint(n, t, f)
    \/ \E n \in P.names, s \in P.sizes, f \in P.fail \cap 0..7 :
          Truncate(n, s, f, P.chunks)
    \/ \E n \in P.names, f \in P.fail \cap 0..6 : DeleteFile(n, f)

\* a read of the whole file and a read of one byte inside it
Reads == {<<0, MaxRead>>, <<1, 1>>}

Next == NextOps([fail |-> {0}, names |-> {"a"}, tags |-> {"v1"}, reads |-> Reads,
                 data |-> Data, offs |-> 0..MaxOff, sizes |-> 0..MaxNewSize,
                 chunks |-> MaxChunks, files |-> MaxFileId])

Spec == Init /\ [][Next]_vars

\* one caller and a store whose statements may fail: a call runs with any one
\* of its store statements failing, or with none
AnyStatement == 0..7

NextF == NextOps([fail |-> AnyStatement, names |-> {"a"}, tags |-> {"v1"},
                  reads |-> {<<0, MaxRead>>},
                  data |-> Data, offs |-> 0..MaxOff, sizes |-> 0..MaxNewSize,
                  chunks |-> MaxChunksF, files |-> MaxFileId])

SpecF == Init /\ [][NextF]_vars

\* one caller, a store that never fails, two files and two version tags
DataM == {Ramp(1, 1), Ramp(2, 2)}

TagsM == {"v1", "v2"}

NextM == NextOps([fail |-> {0}, names |-> Names, tags |-> TagsM,
                  reads |-> {<<0, MaxRead>>},
                  data |-> DataM, offs |-> 0..MaxOffM, sizes |-> 0..MaxNewSizeM,
                  chunks |-> MaxChunksM, files |-> MaxFileIdM])

SpecM == Init /\ [][NextM]_vars

\* one caller and a reliable store; between two calls the caller may replace
\* its manager by a new one on the same store
NextR ==
    \/ NextOps([fail |-> {0}, names |-> {"a"}, tags |-> {"v1"},
                reads |-> {<<0, MaxRead>>},
                data |-> DataM, offs |-> 0..MaxOffR, sizes |-> 0..MaxNewSizeR,
                chunks |-> MaxChunksR, files |-> MaxFileId])
    \/ NewManager

SpecR == Init /\ [][NextR]_vars

\* one caller and a reliable store; the caller also runs the write subcommand
\* of the command line
DataW == {<<>>, Ramp(1, 2)}

NextW ==
    \/ NextOps([fail |-> {0}, names |-> {"a"}, tags |-> {"v1"},
                reads |-> {<<0, MaxRead>>},
                data |-> DataM, offs |-> 0..MaxOffM, sizes |-> 0..MaxNewSizeM,
                chunks |-> MaxChunksW, files |-> MaxFileId])
    \/ \E d \in DataW, o \in 0..MaxOffW, allow \in BOOLEAN :
          executeWriteCommand("a", o, d, allow, MaxChunksW, MaxFileId)

SpecW == Init /\ [][NextW]_vars

----------------------------------------------------------------------------
(* Concurrent callers: a call advances one store statement (or one group of *)
(* statements that run without an intervening statement of the same kind)   *)
(* at a time; sm.mu is the only thing that orders the callers.              *)

\* snapshot_layers.file_id references files, chunks.snapshot_layer_id
\* references snapshot_layers
FileRowExists(d, fileID) == \E f \in d.files : f.id = fileID

\* a chunks table whose snapshot_layer_id references nothing
LayerRowExistsAny(d, layerID) == TRUE

LayerRowExists(d, layerID) == \E l \in d.layers : l.id = layerID

\* sm.mu.Lock() returns when no caller holds either side; sm.mu.RLock() returns
\* when no caller holds the exclusive side
CanLock == mu.w = 0 /\ mu.r = {}

CanRLock == mu.w = 0

Locked(p) == [mu EXCEPT !.w = p]

RLocked(p) == [mu EXCEPT !.r = @ \cup {p}]

\* a return path that leaves out the deferred Unlock or RUnlock
StillLocked(p) == mu

Unlocked(p) == [w |-> IF mu.w = p THEN 0 ELSE mu.w, r |-> mu.r \ {p}]

\* positions inside ReadFile, between RLock and the deferred RUnlock
ReadPcs == {"rd_exists", "rd_layers", "rd_chunks"}

\* positions inside the calls that change the store, after their first statement
MutatorPcs == {"ins_layer", "wr_insert", "cp_commit", "del_commit", "tr_size", "tr_write"}

\* caller p takes a step that leaves the store as d2, the lock as mu2, and the
\* caller at position pcNew with frame c; "idle" is the position after return.
\* lin[q] collects, for a ReadFile in progress, the results it would give on
\* every committed state of the store since its invocation.
Step(p, d2, mu2, pcNew, c) ==
    /\ db' = d2
    /\ mu' = mu2
    /\ pc' = [pc EXCEPT ![p] = pcNew]
    /\ loc' = [loc EXCEPT ![p] =
                 IF pcNew # "idle" THEN c
                 ELSE IF c.op = "ReadFile"
                      THEN [Call(c.op, c.name, c.off, c.size, c.data, c.tag)
                               EXCEPT !.err = c.err, !.out = c.out]
                 ELSE NoLoc]
    /\ ret' = IF pcNew = "idle"
              THEN Ret(c.op, c.name, c.off, c.size, c.data, c.tag, 0, c)
              ELSE ret
    /\ lin' = [q \in Callers |->
                 IF q = p
                 THEN IF c.op # "ReadFile" THEN {}
                      ELSE IF pc[p] = "idle"
                           THEN ReadOutcomes(d2, c.name, c.off, c.size, c.tag)
                      ELSE lin[p]
                 ELSE IF pc[q] \in ReadPcs /\ d2 # db
                      THEN lin[q] \cup ReadOutcomes(d2, loc[q].name, loc[q].off,
                                                    loc[q].size, loc[q].tag)
                 ELSE lin[q]]
    /\ UNCHANGED snap

Failed(c, err) == [c EXCEPT !.err = err]

\* InsertFile, first statement: INSERT INTO files, no lock held
InsertFile_Row(p, name) ==
    /\ pc[p] = "idle"
    /\ db.seq.file <= MaxFileId \/ FileNameTaken(db, name)
    /\ LET c == Call("InsertFile", name, 0, 0, <<>>, "")
       IN IF FileNameTaken(db, name)
          THEN Step(p, db, mu, "idle", Failed(c, "failed to insert new file"))
          ELSE Step(p, insertFileRow(db, name), mu, "ins_layer",
                    [c EXCEPT !.fileID = db.seq.file])

\* InsertFile, second statement: insertActiveLayer(layer), no lock held
InsertFile_Layer(p) ==
    /\ pc[p] = "ins_layer"
    /\ IF FileRowExists(db, loc[p].fileID)
       THEN Step(p, insertActiveLayer(db, loc[p].fileID), mu, "idle", loc[p])
       ELSE Step(p, db, mu, "idle",
                 Failed(loc[p], "failed to create initial layer for new file"))

\* WriteFile from sm.mu.Lock() to calculateRanges: the statements that read
WriteFile_Read(p, c, pcFrom) ==
    /\ pc[p] = pcFrom
    /\ CanLock
    /\ LET fileID == GetFileIDByName(db, c.name)
           layerID == SelectActiveLayer(db, fileID)
           r == WriteFileRun(db, c.name, c.data, c.off, 0)
       IN IF r.err # ""
          THEN Step(p, db, mu, "idle",
                    Failed(c, IF c.op = "Truncate" THEN "failed to extend file" ELSE r.err))
          ELSE Step(p, db, Locked(p), "wr_insert",
                    [c EXCEPT !.fileID = fileID, !.layerID = layerID,
                              !.fileSize = calcFileSize(db, fileID),
                              !.rg = calculateRanges(db, layerID, c.off, Len(c.data))])

WriteFile_Begin(p, filename, data, offset) ==
    /\ Len(db.chunks) < MaxChunksC
    /\ WriteFile_Read(p, Call("WriteFile", filename, offset, Len(data), data, ""), "idle")

\* WriteFile, insertChunk and the deferred sm.mu.Unlock()
WriteFile_Insert(p) ==
    /\ pc[p] = "wr_insert"
    /\ LET c == loc[p]
       IN IF LayerRowExists(db, c.layerID)
          THEN Step(p, insertChunk(db, c.layerID, c.off, c.data, c.rg.layerRange,
                                   c.rg.fileRange),
                    Unlocked(p), "idle", c)
          ELSE Step(p, db, Unlocked(p), "idle",
                    Failed(c, IF c.op = "Truncate" THEN "failed to extend file"
                              ELSE "failed to record chunk"))

\* ReadFile from sm.mu.RLock() to GetFileIDByName
ReadFile_Begin(p, filename, offset, size, version) ==
    /\ pc[p] = "idle"
    /\ CanRLock
    /\ LET c == Call("ReadFile", filename, offset, size, <<>>, version)
           id == GetFileIDByName(db, filename)
       IN IF id = 0
          THEN Step(p, db, mu, "idle", Failed(c, "file not found"))
          ELSE Step(p, db, RLocked(p), IF version # "" THEN "rd_exists" ELSE "rd_layers",
                    [c EXCEPT !.fileID = id])

\* ReadFile, the EXISTS query of a read with a version
ReadFile_Exists(p) ==
    /\ pc[p] = "rd_exists"
    /\ IF VersionExistsForFile(db, loc[p].fileID, loc[p].tag)
       THEN Step(p, db, mu, "rd_layers", loc[p])
       ELSE Step(p, db, Unlocked(p), "idle", Failed(loc[p], "version tag not found"))

\* ReadFile, LoadLayersByFileID and the version filter
ReadFile_Layers(p) ==
    /\ pc[p] = "rd_layers"
    /\ Step(p, db, mu, "rd_chunks",
            [loc[p] EXCEPT !.layers =
                SelectLayers(LoadLayersByFileID(db, loc[p].fileID), loc[p].tag)])

\* ReadFile, loadChunksBySnapshotLayerID, the merge and the deferred RUnlock
ReadFile_Chunks(p) ==
    /\ pc[p] = "rd_chunks"
    /\ \E ord \in ChunkOrders(db) :
          LET r == SliceResult(BuildImage(db, ord, loc[p].layers),
                               loc[p].off, loc[p].size)
          IN Step(p, db, Unlocked(p), "idle",
                  [loc[p] EXCEPT !.err = r.err, !.out = r.out])

\* Checkpoint from sm.mu.Lock() to the query of the active layer
Checkpoint_Begin(p, filename, version) ==
    /\ pc[p] = "idle"
    /\ CanLock
    /\ LET c == Call("Checkpoint", filename, 0, 0, <<>>, version)
           fileID == GetFileIDByName(db, filename)
           layerID == SelectActiveLayer(db, fileID)
       IN IF layerID = 0
          THEN Step(p, db, mu, "idle", Failed(c, "failed to query active layer"))
          ELSE Step(p, db, Locked(p), "cp_commit",
                    [c EXCEPT !.fileID = fileID, !.layerID = layerID])

\* Checkpoint, the statements that write, tx.Commit() and sm.mu.Unlock()
Checkpoint_Commit(p) ==
    /\ pc[p] = "cp_commit"
    /\ LET c == loc[p]
           tx1 == insertVersion(db, c.tag)
           tx2 == updateLayer(tx1, db.seq.version, c.layerID)
           tx3 == insertActiveLayer(tx2, c.fileID)
       IN IF VersionTagTaken(db, c.tag)
          THEN Step(p, Rollback(db, db), Unlocked(p), "idle",
                    Failed(c, "failed to insert new version"))
          ELSE IF ~FileRowExists(db, c.fileID)
               THEN Step(p, Rollback(db, tx2), Unlocked(p), "idle",
                         Failed(c, "failed to record new layer"))
          ELSE Step(p, Commit(db, tx3), Unlocked(p), "idle", c)

\* DeleteFile, tx Begin and GetFileIDByName, no lock held
DeleteFile_Begin(p, name) ==
    /\ pc[p] = "idle"
    /\ LET c == Call("DeleteFile", name, 0, 0, <<>>, "")
           fileID == GetFileIDByName(db, name)
       IN IF fileID = 0
          THEN Step(p, Commit(db, db), mu, "idle", c)
          ELSE Step(p, db, mu, "del_commit", [c EXCEPT !.fileID = fileID])

\* DeleteFile, the three DELETE statements and the deferred tx.Commit()
DeleteFile_Commit(p) ==
    /\ pc[p] = "del_commit"
    /\ LET fileID == loc[p].fileID
           tx3 == deleteFileRow(deleteLayers(deleteChunks(db, fileID), fileID), fileID)
       IN Step(p, Commit(db, tx3), mu, "idle", loc[p])

\* Truncate, GetFileIDByName without holding any lock
Truncate_Begin(p, filename, newSize) ==
    /\ pc[p] = "idle"
    /\ Len(db.chunks) < MaxChunksC
    /\ LET c == Call("Truncate", filename, 0, newSize, <<>>, "")
           fileID == GetFileIDByName(db, filename)
       IN IF fileID = 0
          THEN Step(p, db, mu, "idle", Failed(c, "file not found"))
          ELSE Step(p, db, mu, "tr_size", [c EXCEPT !.fileID = fileID])

\* Truncate, sm.FileSize(fileID) under the read lock and the comparison
Truncate_Size(p) ==
    /\ pc[p] = "tr_size"
    /\ CanRLock
    /\ LET c == loc[p]
           size == FileSize(db, c.fileID)
       IN IF c.size = size THEN Step(p, db, mu, "idle", c)
          ELSE IF c.size < size
               THEN Step(p, db, mu, "idle",
                         Failed(c, "new size is smaller than current size"))
          ELSE Step(p, db, mu, "tr_write",
                    [c EXCEPT !.off = size, !.data = Zeroes(c.size - size)])

\* Truncate, sm.WriteFile(filename, zeroes, size)
Truncate_Write(p) == WriteFile_Read(p, loc[p], "tr_write")

\* the inputs of concurrent callers
DataC == {Ramp(1, 1), Ramp(2, 2)}

ReadsC == {<<0, MaxRead>>}

NextC ==
    \E p \in Callers :
        \/ InsertFile_Row(p, "a")
        \/ InsertFile_Layer(p)
        \/ \E d \in DataC, o \in 0..MaxOffC : WriteFile_Begin(p, "a", d, o)
        \/ WriteFile_Insert(p)
        \/ \E rd \in ReadsC, v \in {"", "v1"} : ReadFile_Begin(p, "a", rd[1], rd[2], v)
        \/ ReadFile_Exists(p)
        \/ ReadFile_Layers(p)
        \/ ReadFile_Chunks(p)
        \/ Checkpoint_Begin(p, "a", "v1")
        \/ Checkpoint_Commit(p)
        \/ DeleteFile_Begin(p, "a")
        \/ DeleteFile_Commit(p)
        \/ \E s \in 1..MaxNewSize : Truncate_Begin(p, "a", s)
        \/ Truncate_Size(p)
        \/ Truncate_Write(p)

SpecC == Init /\ [][NextC]_vars

----------------------------------------------------------------------------
(* Properties, one caller and a reliable store (Spec)                       *)

FileExists(d, n) == GetFileIDByName(d, n) # 0

LayersOf(d, n) == LayerIdsOfFile(d, GetFileIDByName(d, n))

ChunksOf(d, n) == VisibleChunks(d, LayersOf(d, n))

\* image[offset : min(offset + size, len(image))], empty from the end on
RefSlice(img, o, s) ==
    LET e == IF o >= Len(img) THEN o ELSE min(o + s, Len(img))
    IN [i \in 1..(e - o) |-> img[o + i]]

Ok(bytes) == [err |-> "", out |-> bytes]

\* C1: the chunks of a layer are applied in insertion order, not in offset
\* order: where writes that went to one layer overlap, a later ReadFile returns
\* the byte of the write issued last.  Stated for the writes of a layer that
\* start at different offsets (writes at the same offset are C9's case).
C1_InsertionOrderWithinLayer ==
    \A n \in Names :
        (/\ FileExists(db, n)
         /\ \A i, j \in ChunksOf(db, n) :
               (i # j /\ db.chunks[i].snapshot_layer_id = db.chunks[j].snapshot_layer_id)
               => db.chunks[i].offset_value # db.chunks[j].offset_value)
        => \A r \in ReadOutcomes(db, n, 0, MaxRead, "") :
               r = Ok(RefSlice(RefImage(db, LayersOf(db, n)), 0, MaxRead))

TagOfVersion(d, vid) == (CHOOSE v \in d.versions : v.id = vid).tag

\* C2: after Checkpoint(name, T), ReadFile with version T returns the bytes of
\* the image as it was at that checkpoint, whatever is written or sealed later.
C2_VersionReadIsSealedImage ==
    \A vid \in 1..Len(snap) : \A n \in Names :
        GetFileIDByName(db, n) = snap[vid].file
        => \A o \in 0..MaxOff, s \in 0..MaxRead :
              \A r \in ReadOutcomes(db, n, o, s, TagOfVersion(db, vid)) :
                  r = Ok(RefSlice(snap[vid].image, o, s))

Rows(d) == [files |-> d.files, layers |-> d.layers, versions |-> d.versions,
            chunks |-> d.chunks]

\* C4: when a step of Checkpoint fails (file lookup, active-layer lookup,
\* version insert, sealing update, new-layer insert or commit), Checkpoint
\* returns an error and the store has the rows it had before the call: no new
\* version row, the active layer still active without a version id, no new layer.
C4_CheckpointFailureAtomic ==
    [][(ret'.op = "Checkpoint" /\ (ret'.fail # 0 \/ ret'.err # ""))
       => /\ ret'.err # ""
          /\ Rows(db') = Rows(db)
          /\ \A l \in db.layers : l.active = 1 => (l \in db'.layers /\ l.version_id = 0)]_vars

\* the insert of the new layer failed after the version insert and the sealing
\* update of a file that has chunks
C4_Witness ==
    /\ ret.op = "Checkpoint" /\ ret.fail = 6 /\ ret.err = "failed to record new layer"
    /\ ChunksOf(db, ret.name) # {}
    /\ SelectActiveLayer(db, GetFileIDByName(db, ret.name)) # 0

\* C8: after WriteFile(name, B, 0) as the only write of a file, ReadFile(name, 0,
\* len(B)) returns exactly B and the size of the file is len(B).
C8_RoundTrip ==
    (/\ ret.op = "WriteFile" /\ ret.err = ""
     /\ Cardinality(ChunksOf(db, ret.name)) = 1)
    => /\ \A r \in ReadOutcomes(db, ret.name, 0, Len(ret.data), "") : r = Ok(ret.data)
       /\ SizeOf(db, ret.name) = Len(ret.data)

C8_Witness ==
    /\ ret.op = "WriteFile" /\ ret.err = "" /\ Len(ret.data) = MaxLen
    /\ Cardinality(ChunksOf(db, ret.name)) = 1

\* C9: when WriteFile(name, A, k) is followed by WriteFile(name, B, k) with
\* len(B) <= len(A) and no write in between, every ReadFile(name, k, len(A))
\* returns B followed by A[len(B):].
C9_SameOffsetLaterWins ==
    \A n \in Names :
        Cardinality(ChunksOf(db, n)) >= 2
        => LET j == Max(ChunksOf(db, n))
               i == Max(ChunksOf(db, n) \ {j})
               A == db.chunks[i]
               B == db.chunks[j]
           IN (A.offset_value = B.offset_value /\ Len(B.data) <= Len(A.data))
              => \A r \in ReadOutcomes(db, n, A.offset_value, Len(A.data), "") :
                    r = Ok(B.data \o SubSeq(A.data, Len(B.data) + 1, Len(A.data)))

\* C10: a read without a version takes, at every offset that chunks cover, the
\* byte of a chunk of the latest layer covering the offset: the active layer
\* masks the sealed ones and offsets only earlier layers cover keep their bytes.
C10_LaterLayerMasks ==
    \A n \in Names :
        FileExists(db, n)
        => \A r \in ReadOutcomes(db, n, 0, MaxRead, "") :
              /\ r.err = ""
              /\ Len(r.out) = min(MaxRead, RefSize(db, LayersOf(db, n)))
              /\ \A k \in 0..(Len(r.out) - 1) :
                    LET cov == {i \in ChunksOf(db, n) : Covers(db.chunks[i], k)}
                        top == Max({db.chunks[i].snapshot_layer_id : i \in cov})
                    IN cov # {} =>
                          \E i \in cov :
                             /\ db.chunks[i].snapshot_layer_id = top
                             /\ r.out[k + 1] =
                                   db.chunks[i].data[k - db.chunks[i].offset_value + 1]

\* a whole-file read of a file whose sealed and active layer cover one offset
\* with different bytes, and whose sealed layer alone covers another offset
C10_Witness ==
    /\ ret.op = "ReadFile" /\ ret.tag = "" /\ ret.err = "" /\ ret.off = 0
    /\ \E i, j \in ChunksOf(db, ret.name) :
          /\ db.chunks[i].snapshot_layer_id < db.chunks[j].snapshot_layer_id
          /\ \E k \in 0..MaxRead :
                /\ Covers(db.chunks[i], k) /\ Covers(db.chunks[j], k)
                /\ db.chunks[i].data[k - db.chunks[i].offset_value + 1]
                      # db.chunks[j].data[k - db.chunks[j].offset_value + 1]
          /\ \E k \in 0..MaxRead :
                /\ Covers(db.chunks[i], k) /\ ~Covers(db.chunks[j], k)
                /\ k < Len(ret.out)
                /\ ret.out[k + 1] = db.chunks[i].data[k - db.chunks[i].offset_value + 1]

\* C5: in every state another operation can observe, every file that exists has
\* exactly one layer with active = 1, never none and never two.
C5_ExactlyOneActiveLayer ==
    \A f \in db.files :
        Cardinality({l \in db.layers : l.file_id = f.id /\ l.active = 1}) = 1

\* C6: WriteFile, Checkpoint, DeleteFile, Truncate and InsertFile run their
\* read-check-modify sequence holding the exclusive lock: a caller inside one
\* of them holds sm.mu exclusively, and no other caller is inside a mutating
\* call or inside a ReadFile at that time.
C6_MutatorsHoldExclusiveLock ==
    \A p \in Callers :
        pc[p] \in MutatorPcs
        => /\ mu.w = p
           /\ \A q \in Callers \ {p} : pc[q] \notin MutatorPcs \cup ReadPcs

\* C7: every ReadFile linearizes: its result is the result ReadFile gives on the
\* committed store at some instant between its invocation and its return.
C7_ReadFileLinearizes ==
    \A p \in Callers :
        (pc[p] = "idle" /\ loc[p].op = "ReadFile")
        => [err |-> loc[p].err, out |-> loc[p].out] \in lin[p]

----------------------------------------------------------------------------
(* Properties, one caller, two files and two version tags (SpecM)           *)

\* the tags of the sealed layers of the file called n
SealedTagsOf(d, n) ==
    LET ls == LoadLayersByFileID(d, GetFileIDByName(d, n))
    IN {ls[k].Tag : k \in {i \in 1..Len(ls) : ls[i].VersionID # 0}}

\* C11: ReadFile with a version tag that labels no sealed layer of the named
\* file, a tag that labels only a layer of another file included, fails with
\* "version tag not found" and returns no data.
C11_VersionNotFound ==
    \A n \in Names, t \in TagsM \cup {"v9"} :
        (FileExists(db, n) /\ t \notin SealedTagsOf(db, n))
        => \A r \in ReadOutcomes(db, n, 0, MaxRead, t) :
              r = [err |-> "version tag not found", out |-> <<>>]

\* a read of a file that has chunks failed for a tag that labels a layer of
\* the other file
C11_Witness ==
    /\ ret.op = "ReadFile" /\ ret.err = "version tag not found"
    /\ ChunksOf(db, ret.name) # {}
    /\ \E n \in Names \ {ret.name} : ret.tag \in SealedTagsOf(db, n)

\* the tags of the layers of the file called n, in creation order
TagSeqOf(d, n) ==
    LET ls == LoadLayersByFileID(d, GetFileIDByName(d, n))
    IN [k \in 1..Len(ls) |-> ls[k].Tag]

\* the tags of the successful checkpoints of file fileID, in checkpoint order
CheckpointTagsOf(h, fileID) ==
    LET es == SelectSeq(h, LAMBDA e : e.file = fileID)
    IN [k \in 1..Len(es) |-> es[k].tag]

\* C12: a successful Checkpoint(name, tag) creates exactly one version row with
\* that tag, seals the file's active layer with that version, and adds exactly
\* one new empty active layer; the tags of the file's layers in creation order
\* are then the tags of its checkpoints in order followed by one untagged layer.
C12_CheckpointStructure ==
    [][(ret'.op = "Checkpoint" /\ ret'.err = "")
       => LET id == GetFileIDByName(db, ret'.name)
              old == CHOOSE l \in db.layers : l.file_id = id /\ l.active = 1
              newVersions == db'.versions \ db.versions
              newLayers == {l \in db'.layers : l.id \notin {x.id : x \in db.layers}}
          IN /\ Cardinality({l \in db.layers : l.file_id = id /\ l.active = 1}) = 1
             /\ Cardinality(newVersions) = 1
             /\ \A v \in newVersions :
                   /\ v.tag = ret'.tag
                   /\ [old EXCEPT !.active = 0, !.version_id = v.id] \in db'.layers
             /\ db'.layers \ newLayers =
                   {IF l = old THEN CHOOSE x \in db'.layers : x.id = old.id ELSE l :
                       l \in db.layers}
             /\ Cardinality(newLayers) = 1
             /\ \A l \in newLayers :
                   /\ l.file_id = id /\ l.active = 1 /\ l.version_id = 0
                   /\ \A i \in ChunkIdx(db') : db'.chunks[i].snapshot_layer_id # l.id
             /\ db'.chunks = db.chunks /\ db'.files = db.files
             /\ TagSeqOf(db', ret'.name) = CheckpointTagsOf(snap', id) \o <<"">>]_vars

\* the second successful checkpoint of a file that has chunks
C12_Witness ==
    /\ ret.op = "Checkpoint" /\ ret.err = ""
    /\ ChunksOf(db, ret.name) # {}
    /\ Len(TagSeqOf(db, ret.name)) = 3
    /\ TagSeqOf(db, ret.name)[1] # TagSeqOf(db, ret.name)[2]

----------------------------------------------------------------------------
(* Properties, one caller and a store whose statements may fail (SpecF)     *)

\* C13: InsertFile is atomic: when InsertFile(name) returns an error at any
\* step, the insert of the initial layer included, it has added no file row,
\* so no file row exists without its initial active layer.
C13_InsertFileAtomic ==
    [][(ret'.op = "InsertFile" /\ ret'.err # "")
       => /\ db'.files = db.files
          /\ db'.layers = db.layers]_vars

----------------------------------------------------------------------------
(* Properties, one caller and a reliable store (Spec), continued            *)

\* C14: after every accepted WriteFile(name, data, offset), SizeOf(name) is the
\* maximum of SizeOf(name) before the write and offset + len(data), the size
\* being taken over the chunks of all layers, sealed and active; so SizeOf
\* never decreases under WriteFile.
C14_SizeAfterWrite ==
    [][(ret'.op = "WriteFile" /\ ret'.err = "")
       => /\ SizeOf(db', ret'.name)
                = Max({SizeOf(db, ret'.name), ret'.off + Len(ret'.data)})
          /\ SizeOf(db', ret'.name) >= SizeOf(db, ret'.name)
          /\ SizeOf(db', ret'.name) = RefSize(db', LayersOf(db', ret'.name))]_vars

\* a write into the active layer that ends below the end of a sealed layer
C14_Witness ==
    /\ ret.op = "WriteFile" /\ ret.err = ""
    /\ ret.off + Len(ret.data) < SizeOf(db, ret.name)
    /\ calcFileSizeActive(db, GetFileIDByName(db, ret.name)) < SizeOf(db, ret.name)
    /\ Len(ret.data) > 0

\* the sizes a read is asked for: small ones and the largest uint64
ReadSizes == 0..MaxRead \cup {MaxUint}

\* C15: for an existing file and any offset and size, ReadFile returns exactly
\* image[offset : min(offset + size, len(image))] of the selected version's
\* image: size bytes inside the image, cut at the end when running past it,
\* and an empty result without error when offset >= len(image).
C15_ReadSlice ==
    \A n \in Names :
        FileExists(db, n)
        => \A v \in {""} \cup SealedTagsOf(db, n), ord \in ChunkOrders(db) :
              LET layers == SelectLayers(LoadLayersByFileID(db, GetFileIDByName(db, n)), v)
                  image == BuildImage(db, ord, layers)
              IN \A o \in 0..(MaxOff + 1), s \in ReadSizes :
                    LET r == ReadFileRun(db, n, o, s, v, 0, ord)
                    IN r.err = "" /\ r.out = RefSlice(image, o, s)

\* C16: ReadFile and WriteFile on a name for which no file exists, never
\* inserted or removed by DeleteFile, return an error and create no file,
\* layer or chunk.
C16_NoFileNoEffect ==
    [][(ret'.op \in {"ReadFile", "WriteFile"}
        /\ ~ \E f \in db.files : f.name = ret'.name)
       => ret'.err # "" /\ ret'.out = <<>> /\ db' = db]_vars

\* a write to a name whose file was removed by DeleteFile
C16_Witness ==
    /\ ret.op = "WriteFile" /\ ret.err = "file not found"
    /\ db.files = {} /\ db.seq.file > 1

----------------------------------------------------------------------------
(* Properties, one caller, two files and two version tags (SpecM), continued *)

\* the rows of the file called n: its layers and, in insertion order, its chunks
RowsOfFile(d, n) ==
    LET ids == LayersOf(d, n)
    IN [id |-> GetFileIDByName(d, n),
        layers |-> {l \in d.layers : l.id \in ids},
        chunks |-> SelectSeq(d.chunks, LAMBDA c : c.snapshot_layer_id \in ids)]

\* C17: a successful DeleteFile(name) removes exactly that file: GetAllFiles no
\* longer lists it and none of its layers or chunks remain, while every other
\* file keeps its layers, chunks, size and read results; DeleteFile of a name
\* with no file succeeds and changes nothing.
C17_DeleteFileFrame ==
    [][(ret'.op = "DeleteFile" /\ ret'.err = "")
       => LET n == ret'.name
              id == GetFileIDByName(db, n)
              ids == LayerIdsOfFile(db, id)
          IN IF ~ \E f \in db.files : f.name = n THEN db' = db
             ELSE /\ \A f \in GetAllFiles(db') : f.Name # n /\ f.ID # id
                  /\ \A l \in db'.layers : l.file_id # id
                  /\ \A i \in ChunkIdx(db') : db'.chunks[i].snapshot_layer_id \notin ids
                  /\ \A m \in Names \ {n} :
                        /\ FileExists(db', m) = FileExists(db, m)
                        /\ RowsOfFile(db', m) = RowsOfFile(db, m)
                        /\ SizeOf(db', m) = SizeOf(db, m)
                        /\ \A v \in {""} \cup TagsM :
                              ReadOutcomes(db', m, 0, MaxRead, v)
                                 = ReadOutcomes(db, m, 0, MaxRead, v)]_vars

\* DeleteFile removed a file that had a sealed layer while the other file,
\* which has chunks, stays
C17_Witness ==
    /\ ret.op = "DeleteFile" /\ ret.err = ""
    /\ ~ FileExists(db, ret.name)
    /\ db.versions # {}
    /\ \A l \in db.layers : l.version_id = 0
    /\ \E m \in Names \ {ret.name} : ChunksOf(db, m) # {}

----------------------------------------------------------------------------
(* Properties, one caller and a reliable store (Spec): Truncate, InsertFile *)

\* C18: Truncate(name, newSize) with newSize greater than the current size
\* appends one zero-filled chunk covering [size, newSize): SizeOf(name) becomes
\* newSize, the bytes in [size, newSize) read as zero and the bytes below size
\* are unchanged; with newSize equal to the size it changes nothing.
C18_TruncateExtends ==
    [][(ret'.op = "Truncate" /\ ret'.err = "")
       => LET n == ret'.name
              newSize == ret'.size
              size == RefSize(db, LayersOf(db, n))
              k == Len(db.chunks)
          IN IF newSize = size THEN db' = db
             ELSE /\ newSize > size
                  /\ Len(db'.chunks) = k + 1
                  /\ SubSeq(db'.chunks, 1, k) = db.chunks
                  /\ db'.chunks[k + 1].snapshot_layer_id
                        = SelectActiveLayer(db, GetFileIDByName(db, n))
                  /\ db'.chunks[k + 1].offset_value = size
                  /\ db'.chunks[k + 1].data = [i \in 1..(newSize - size) |-> 0]
                  /\ Rows(db') = [Rows(db) EXCEPT !.chunks = db'.chunks]
                  /\ SizeOf(db', n) = newSize
                  /\ \A r \in ReadOutcomes(db', n, size, newSize - size, "") :
                        r = Ok([i \in 1..(newSize - size) |-> 0])
                  /\ ReadOutcomes(db', n, 0, size, "") = ReadOutcomes(db, n, 0, size, "")]_vars

\* Truncate extended a file that had bytes
C18_Witness ==
    /\ ret.op = "Truncate" /\ ret.err = ""
    /\ Len(db.chunks) >= 2
    /\ db.chunks[Len(db.chunks)].data = <<0>>
    /\ db.chunks[Len(db.chunks)].offset_value > 0
    /\ SizeOf(db, ret.name) = ret.size

C20_InsertFileDuplicate ==
    [][(ret'.op = "InsertFile" /\ \E f \in db.files : f.name = ret'.name)
       => /\ ret'.err # ""
          /\ Rows(db') = Rows(db)
          /\ Cardinality({f \in db'.files : f.name = ret'.name}) = 1
          /\ RowsOfFile(db', ret'.name) = RowsOfFile(db, ret'.name)
          /\ SizeOf(db', ret'.name) = SizeOf(db, ret'.name)
          /\ \A v \in {""} \cup TagsM :
                ReadOutcomes(db', ret'.name, 0, MaxRead, v)
                   = ReadOutcomes(db, ret'.name, 0, MaxRead, v)]_vars

\* InsertFile was rejected for the name of a file that has chunks and a sealed
\* layer
C20_Witness ==
    /\ ret.op = "InsertFile" /\ ret.err = "failed to insert new file"
    /\ ChunksOf(db, ret.name) # {}
    /\ SealedTagsOf(db, ret.name) # {}

----------------------------------------------------------------------------
(* Properties, one caller, two files and two version tags (SpecM): tags     *)

\* C21: Checkpoint with a tag that already exists, on this file or on any other
\* file, fails and leaves the store unchanged: the active layer stays active,
\* no layer and no version row is added; so the retry of a successful
\* Checkpoint with the same tag fails.
C21_CheckpointDuplicateTag ==
    [][(ret'.op = "Checkpoint" /\ \E v \in db.versions : v.tag = ret'.tag)
       => /\ ret'.err # ""
          /\ Rows(db') = Rows(db)
          /\ \A l \in db.layers : l.active = 1 => l \in db'.layers
          /\ snap' = snap]_vars

\* Checkpoint of a file that has chunks was rejected for a tag that labels a
\* sealed layer of the other file only
C21_Witness ==
    /\ ret.op = "Checkpoint" /\ ret.err = "failed to insert new version"
    /\ ChunksOf(db, ret.name) # {}
    /\ ret.tag \notin SealedTagsOf(db, ret.name)
    /\ \E n \in Names \ {ret.name} : ret.tag \in SealedTagsOf(db, n)

----------------------------------------------------------------------------
(* Properties, one caller that may replace its manager (SpecR)             *)

----------------------------------------------------------------------------
(* Properties, one caller and a store whose statements may fail (SpecF),    *)
(* continued                                                                *)

\* the length of the image of file n a read with version v selects
ImageLen(d, n, v) ==
    LET ls == SelectLayers(LoadLayersByFileID(d, GetFileIDByName(d, n)), v)
    IN RefSize(d, {ls[k].ID : k \in 1..Len(ls)})

\* C23: ReadFile on an existing file returns an empty result with no error only
\* when the requested offset is at or beyond the end of the image; every other
\* anomaly, a failure to load the file's layers or chunks on a read without a
\* version included, is returned as an error.
C23_EmptyOnlyBeyondEnd ==
    (/\ ret.op = "ReadFile" /\ ret.size > 0
     /\ \E f \in db.files : f.name = ret.name)
    => /\ (ret.err = "" /\ ret.out = <<>>) => ret.off >= ImageLen(db, ret.name, ret.tag)
       /\ (ret.fail \in {1, 3, 4} \/ (ret.fail = 2 /\ ret.tag # "")) => ret.err # ""

\* the calls that change the store in one statement or in one transaction
\* (InsertFile runs two statements: C13)
Mutators == {"WriteFile", "Checkpoint", "Truncate", "DeleteFile"}

\* the result of the mutating call recorded in r, run on store d with statement
\* f failing
Outcome(d, r, f) ==
    CASE r.op = "WriteFile" -> WriteFileRun(d, r.name, r.data, r.off, f)
      [] r.op = "Checkpoint" -> CheckpointRun(d, r.name, r.tag, f)
      [] r.op = "Truncate" -> TruncateRun(d, r.name, r.size, f)
      [] r.op = "DeleteFile" -> DeleteFileRun(d, r.name, f)

\* C24: every store error inside a mutating operation is returned to the caller
\* and leaves no partial effect; in particular, when the transaction of
\* DeleteFile fails at any step, the commit included, DeleteFile returns an
\* error and the file, its layers and its chunks are all still present.  A
\* call whose failing statement is never executed ends as the call without
\* failure does.
C24_StoreErrorsReturned ==
    [][(ret'.op \in Mutators /\ ret'.fail # 0)
       => \/ ret'.err # "" /\ Rows(db') = Rows(db)
          \/ LET o == Outcome(db, ret', 0)
             IN o.err = ret'.err /\ Rows(o.db) = Rows(db')]_vars

----------------------------------------------------------------------------
(* Properties, one caller that also runs the write subcommand (SpecW)       *)

\* what C25 states of a write command on store d that left store e: the two
\* calls were accepted and appended a chunk of zeros over [size, offset) and a
\* chunk of the data at offset, the bytes below the old size are unchanged, the
\* gap reads as zeros and the data starts at offset
GapFilled(d, e, r) ==
    LET n == r.name
        size == RefSize(d, LayersOf(d, n))
        k == Len(d.chunks)
        active == SelectActiveLayer(e, GetFileIDByName(e, n))
    IN /\ r.err = ""
       /\ Len(e.chunks) = k + 2 /\ SubSeq(e.chunks, 1, k) = d.chunks
       /\ e.chunks[k + 1].snapshot_layer_id = active
       /\ e.chunks[k + 1].offset_value = size
       /\ e.chunks[k + 1].data = [i \in 1..(r.off - size) |-> 0]
       /\ e.chunks[k + 2].snapshot_layer_id = active
       /\ e.chunks[k + 2].offset_value = r.off
       /\ e.chunks[k + 2].data = r.data
       /\ SizeOf(e, n) = r.off + Len(r.data)
       /\ {SubSeq(x.out, 1, size) : x \in ReadOutcomes(e, n, 0, r.off + Len(r.data), "")}
             = IF size = 0 THEN {<<>>}
               ELSE {x.out : x \in ReadOutcomes(d, n, 0, size, "")}
       /\ \A x \in ReadOutcomes(e, n, 0, r.off + Len(r.data), "") :
             /\ x.err = "" /\ Len(x.out) = r.off + Len(r.data)
             /\ \A i \in (size + 1)..r.off : x.out[i] = 0
             /\ SubSeq(x.out, r.off + 1, r.off + Len(r.data)) = r.data

\* C25 as stated: the write command with -allow-beyond-size, given an offset
\* greater than SizeOf(file), first issues a WriteFile of (offset - size) zero
\* bytes at the current size and then the real WriteFile at offset; the core
\* accepts both, and afterwards the bytes below the old size are unchanged, the
\* gap [old size, offset) reads as zeros and the data starts at offset.
C25_GapFillAnyOffset ==
    [][(/\ ret'.op = "write -allow-beyond-size" /\ ret'.data # <<>>
        /\ ret'.off > RefSize(db, LayersOf(db, ret'.name)))
       => GapFilled(db, db', ret')]_vars

\* C25, amended: the same for an offset that exceeds the size by no more than
\* the gap limit of the command (10 MB); with a larger gap the command aborts
\* and writes nothing.
C25_GapFillWithinLimit ==
    [][(/\ ret'.op = "write -allow-beyond-size" /\ ret'.data # <<>>
        /\ ret'.off > RefSize(db, LayersOf(db, ret'.name)))
       => IF ret'.off - RefSize(db, LayersOf(db, ret'.name)) <= GapLimit
          THEN GapFilled(db, db', ret')
          ELSE ret'.err # "" /\ db'.chunks = db.chunks]_vars

\* a write command filled a gap above the bytes of a sealed layer
C25_Witness ==
    /\ ret.op = "write -allow-beyond-size" /\ ret.err = ""
    /\ Len(db.chunks) = 3
    /\ db.chunks[1].snapshot_layer_id < db.chunks[2].snapshot_layer_id
    /\ db.chunks[2].data = <<0>>
    /\ db.chunks[2].offset_value = Len(db.chunks[1].data)
    /\ db.chunks[3].offset_value = ret.off
    /\ ret.off = Len(db.chunks[1].data) + 1

----------------------------------------------------------------------------
(* Properties, one caller and a reliable store (Spec): writes beyond the end *)

----------------------------------------------------------------------------
(* Properties, concurrent callers (SpecC): the life of a layer              *)

\* the chunks of layer id, in insertion order
ChunkRowsOfLayer(d, id) == SelectSeq(d.chunks, LAMBDA c : c.snapshot_layer_id = id)

\* C27: a layer only ever goes from active to sealed, once, inside a successful
\* Checkpoint: a sealed layer never becomes active again, its version id never
\* changes, and no chunk is added to, removed from or changed in a sealed layer
\* until DeleteFile removes the whole file.
C27_SealedIsTerminal ==
    [][\A l \in db.layers :
          /\ l.active = 0
             => \/ /\ l \in db'.layers
                   /\ ChunkRowsOfLayer(db', l.id) = ChunkRowsOfLayer(db, l.id)
                \/ /\ \A x \in db'.layers : x.id # l.id /\ x.file_id # l.file_id
                   /\ \A f \in db'.files : f.id # l.file_id
                   /\ ChunkRowsOfLayer(db', l.id) = <<>>
          /\ l.active = 1
             => \A x \in db'.layers :
                   (x.id = l.id /\ x # l)
                   => /\ ret'.op = "Checkpoint" /\ ret'.err = ""
                      /\ l.version_id = 0 /\ x.version_id \notin {v.id : v \in db.versions}
                      /\ x = [l EXCEPT !.active = 0, !.version_id = x.version_id]
                      /\ \E v \in db'.versions : v.id = x.version_id /\ v.tag = ret'.tag]_vars

\* a write went to the active layer of a file whose sealed layer holds a chunk
C27_Witness ==
    /\ ret.op = "WriteFile" /\ ret.err = ""
    /\ Len(db.chunks) = 2
    /\ \E l \in db.layers :
          l.active = 0 /\ l.version_id # 0 /\ db.chunks[1].snapshot_layer_id = l.id
    /\ \E l \in db.layers : l.active = 1 /\ db.chunks[2].snapshot_layer_id = l.id

----------------------------------------------------------------------------
(* Properties, one caller, two files and two version tags (SpecM): WriteFile *)

\* C28: an accepted WriteFile appends exactly one chunk, to the current active
\* layer of the named file, and changes nothing else: no existing chunk is
\* modified, merged or removed, no layer or version is created, and other
\* files are untouched; a rejected WriteFile appends nothing.
C28_WriteFileFrame ==
    [][ret'.op = "WriteFile"
       => IF ret'.err # "" THEN db' = db
          ELSE LET k == Len(db.chunks)
                   new == db'.chunks[k + 1]
               IN /\ Len(db'.chunks) = k + 1
                  /\ SubSeq(db'.chunks, 1, k) = db.chunks
                  /\ \E f \in db.files : \E l \in db.layers :
                        /\ f.name = ret'.name /\ l.file_id = f.id /\ l.active = 1
                        /\ new.snapshot_layer_id = l.id
                  /\ new.offset_value = ret'.off /\ new.data = ret'.data
                  /\ db'.files = db.files /\ db'.layers = db.layers
                  /\ db'.versions = db.versions
                  /\ \A m \in Names \ {ret'.name} :
                        /\ RowsOfFile(db', m) = RowsOfFile(db, m)
                        /\ \A v \in {""} \cup TagsM :
                              ReadOutcomes(db', m, 0, MaxRead, v)
                                 = ReadOutcomes(db, m, 0, MaxRead, v)]_vars

\* a write at an offset at which the active layer already had a chunk was
\* accepted and left that chunk in place
C28_Witness ==
    /\ ret.op = "WriteFile" /\ ret.err = ""
    /\ Len(db.chunks) = 2
    /\ db.chunks[1].snapshot_layer_id = db.chunks[2].snapshot_layer_id
    /\ db.chunks[1].offset_value = db.chunks[2].offset_value
    /\ db.chunks[1].data # db.chunks[2].data
    /\ Cardinality(db.files) = 2

----------------------------------------------------------------------------
(* Properties, one caller and a reliable store (Spec): the ranges of a chunk *)

\* the base of a layer: the least file_range start among its chunks, 0 when it
\* has none
BaseOf(d, layerID) ==
    LET starts == {ParseRange(d.chunks[i].file_range).r[1] :
                      i \in {j \in ChunkIdx(d) : d.chunks[j].snapshot_layer_id = layerID}}
    IN IF starts = {} THEN 0 ELSE Min(starts)

\* C29: for every accepted WriteFile, at any accepted offset, the chunk recorded
\* has file_range = [offset, offset + len(data)) and a layer_range of the same
\* length that starts at offset - base, where base is the least file_range
\* start among the chunks already in the active layer before this insertion,
\* and 0 when the layer is empty.
C29_RangesOfNewChunk ==
    [][(ret'.op = "WriteFile" /\ ret'.err = "")
       => LET new == db'.chunks[Len(db'.chunks)]
              base == BaseOf(db, new.snapshot_layer_id)
              n == Len(ret'.data)
          IN /\ ParseRange(new.file_range)
                   = [skip |-> FALSE, err |-> FALSE, r |-> <<ret'.off, ret'.off + n>>]
             /\ ParseRange(new.layer_range)
                   = [skip |-> FALSE, err |-> FALSE,
                      r |-> <<ret'.off - base, ret'.off - base + n>>]]_vars

\* C30: in every reachable state every stored chunk has layer_range.start =
\* file_range.start - base(layer), where base(layer) is the least file_range
\* start among the chunks currently in the chunk's layer, and its file_range
\* and layer_range both have the length of its payload.
C30_ChunkRangesInvariant ==
    \A i \in ChunkIdx(db) :
        LET c == db.chunks[i]
            fr == ParseRange(c.file_range)
            lr == ParseRange(c.layer_range)
        IN /\ ~fr.skip /\ ~fr.err /\ ~lr.skip /\ ~lr.err
           /\ fr.r[2] - fr.r[1] = Len(c.data)
           /\ lr.r[2] - lr.r[1] = Len(c.data)
           /\ lr.r[1] = fr.r[1] - BaseOf(db, c.snapshot_layer_id)

----------------------------------------------------------------------------
(* Properties, concurrent callers (SpecC): the layers of a file             *)

\* C31: in every reachable state every non-active layer carries a version id
\* and every active layer carries none, and for each file at most one layer
\* is active.
C31_LayerStates ==
    /\ \A l \in db.layers :
          /\ l.active = 0 => l.version_id # 0
          /\ l.active = 1 => l.version_id = 0
    /\ \A l1, l2 \in db.layers :
          (l1.file_id = l2.file_id /\ l1.active = 1 /\ l2.active = 1) => l1 = l2

\* a file has a sealed layer and an active layer while a caller is between
\* the statements of a WriteFile
C31_Witness ==
    /\ \E p \in Callers : pc[p] = "wr_insert"
    /\ \E l1, l2 \in db.layers :
          /\ l1.file_id = l2.file_id
          /\ l1.active = 0 /\ l1.version_id # 0
          /\ l2.active = 1 /\ l2.version_id = 0

----------------------------------------------------------------------------
(* Properties, one caller and a reliable store (Spec): the width of a uint64 *)

\* C32: for every offset and size representable as unsigned 64-bit integers,
\* pairs whose sum offset + size exceeds the largest of them included,
\* ReadFile on an existing file with offset < len(image) returns
\* image[offset : min(offset + size, len(image))] with the sum taken without
\* wrap-around, and never fails or panics.
C32_ReadSumDoesNotWrap ==
    \A n \in Names :
        FileExists(db, n)
        => \A ord \in ChunkOrders(db) :
              LET image == BuildImage(db, ord, LoadLayersByFileID(db, GetFileIDByName(db, n)))
              IN \A o \in 0..MaxOff, s \in {MaxUint - 1, MaxUint} :
                    o < Len(image)
                    => LET r == ReadFileRun(db, n, o, s, "", 0, ord)
                       IN /\ r.err = ""
                          /\ r.out = SubSeq(image, o + 1, min(o + s, Len(image)))

----------------------------------------------------------------------------
(* Properties, concurrent callers (SpecC): Truncate beside other calls       *)

\* C33: when a Truncate that extends a file runs beside WriteFile calls on the
\* same file, the zero-filled chunk it appends starts at the file's virtual
\* size at the moment the chunk is inserted, so it never covers bytes written
\* by a WriteFile that committed before the chunk was inserted.
C33_TruncateAppendsAtCurrentSize ==
    [][\A p \in Callers :
          (/\ pc[p] = "wr_insert"
           /\ loc[p].op = "Truncate"
           /\ pc'[p] = "idle"
           /\ ret'.err = "")
          => loc[p].off = FileSize(db, loc[p].fileID)]_vars

----------------------------------------------------------------------------
(* Concurrent callers, DeleteFile statement by statement (SpecD).  The store *)
(* runs each statement on the rows committed when the statement starts; the *)
(* rows a transaction has deleted stay locked until it ends, and a statement *)
(* that needs a locked row waits.  A DELETE that would leave a referencing   *)
(* row behind fails.                                                         *)

\* the chunk rows of the layers of a file, and its layer rows
ChunkCountOfFile(d, fileID) ==
    Len(SelectSeq(d.chunks, LAMBDA c : c.snapshot_layer_id \in LayerIdsOfFile(d, fileID)))

LayerCountOfFile(d, fileID) == Cardinality(LayerIdsOfFile(d, fileID))

\* another caller's open transaction has deleted chunk rows (it is past its
\* DELETE FROM chunks), layer rows of the file (past its DELETE FROM
\* snapshot_layers)
ChunkRowsLocked(p, fileID) ==
    \E q \in Callers \ {p} :
        pc[q] \in {"del_layers", "del_file"} /\ loc[q].fileID = fileID /\ loc[q].size > 0

LayerRowsLocked(p, fileID) ==
    \E q \in Callers \ {p} :
        pc[q] = "del_file" /\ loc[q].fileID = fileID /\ loc[q].off > 0

\* DeleteFile, sm.db.Begin() and GetFileIDByName, no lock held
DeleteFile_Tx(p, name) ==
    /\ pc[p] = "idle"
    /\ LET c == Call("DeleteFile", name, 0, 0, <<>>, "")
           fileID == GetFileIDByName(db, name)
       IN IF fileID = 0
          THEN Step(p, Commit(db, db), mu, "idle", c)
          ELSE Step(p, db, mu, "del_chunks", [c EXCEPT !.fileID = fileID])

\* DeleteFile, DELETE FROM chunks: the frame keeps the number of rows deleted
DeleteFile_Chunks(p) ==
    /\ pc[p] = "del_chunks"
    /\ ~ChunkRowsLocked(p, loc[p].fileID)
    /\ Step(p, db, mu, "del_layers",
            [loc[p] EXCEPT !.size = ChunkCountOfFile(db, loc[p].fileID)])

\* DeleteFile, DELETE FROM snapshot_layers: fails when a chunk committed since
\* the first DELETE references one of the layers
DeleteFile_Layers(p) ==
    /\ pc[p] = "del_layers"
    /\ ~LayerRowsLocked(p, loc[p].fileID)
    /\ LET c == loc[p]
       IN IF ChunkCountOfFile(db, c.fileID) > c.size
          THEN Step(p, Rollback(db, db), mu, "idle", Failed(c, "failed to delete layers"))
          ELSE Step(p, db, mu, "del_file",
                    [c EXCEPT !.off = LayerCountOfFile(db, c.fileID)])

\* DeleteFile, DELETE FROM files and the deferred tx.Commit(): fails when a
\* layer committed since the second DELETE references the file
DeleteFile_File(p) ==
    /\ pc[p] = "del_file"
    /\ LET c == loc[p]
           tx3 == deleteFileRow(deleteLayers(deleteChunks(db, c.fileID), c.fileID), c.fileID)
       IN IF LayerCountOfFile(db, c.fileID) > c.off
          THEN Step(p, Rollback(db, db), mu, "idle", Failed(c, "failed to delete file"))
          ELSE Step(p, Commit(db, tx3), mu, "idle", c)

\* insertChunk and the UPDATE of Checkpoint wait for the layer row they touch
WriteFile_InsertD(p) ==
    /\ ~LayerRowsLocked(p, loc[p].fileID)
    /\ WriteFile_Insert(p)

Checkpoint_CommitD(p) ==
    /\ ~LayerRowsLocked(p, loc[p].fileID)
    /\ Checkpoint_Commit(p)

NextD ==
    \E p \in Callers :
        \/ InsertFile_Row(p, "a")
        \/ InsertFile_Layer(p)
        \/ \E d \in DataC, o \in 0..MaxOffC : WriteFile_Begin(p, "a", d, o)
        \/ WriteFile_InsertD(p)
        \/ Checkpoint_Begin(p, "a", "v1")
        \/ Checkpoint_CommitD(p)
        \/ DeleteFile_Tx(p, "a")
        \/ DeleteFile_Chunks(p)
        \/ DeleteFile_Layers(p)
        \/ DeleteFile_File(p)
        \/ \E s \in 1..MaxNewSize : Truncate_Begin(p, "a", s)
        \/ Truncate_Size(p)
        \/ Truncate_Write(p)

SpecD == Init /\ [][NextD]_vars

----------------------------------------------------------------------------
(* Properties, concurrent callers with DeleteFile statement by statement     *)
(* (SpecD)                                                                   *)

----------------------------------------------------------------------------
(* Properties, one caller, two files and two version tags (SpecM): the order *)
(* of the layers of a file                                                   *)

\* the version id of the layer of the file that carries the tag
VersionIdOfTag(d, fileID, tag) ==
    (CHOOSE v \in d.versions :
        v.tag = tag /\ \E l \in d.layers : l.file_id = fileID /\ l.version_id = v.id).id

LayerRow(d, layerID) == CHOOSE l \in d.layers : l.id = layerID

\* C35: in every reachable state the active layer of a file is the layer with
\* the highest id of that file, every sealed layer preceding it in creation
\* order; so a read at a version never includes a chunk of the active layer or
\* of a layer sealed later than that version.
C35_ActiveLayerIsNewest ==
    \A f \in db.files :
        /\ \A l1, l2 \in db.layers :
              (l1.file_id = f.id /\ l2.file_id = f.id /\ l1.active = 1 /\ l2.active = 0)
              => l2.id < l1.id
        /\ \A t \in TagsM :
              VersionExistsForFile(db, f.id, t)
              => \A ord \in ChunkOrders(db) :
                    LET cs == ChunksInOrder(db, ord,
                                 SelectLayers(LoadLayersByFileID(db, f.id), t))
                    IN \A k \in 1..Len(cs) :
                          LET l == LayerRow(db, cs[k].snapshot_layer_id)
                          IN /\ l.active = 0
                             /\ l.version_id # 0
                             /\ l.version_id <= VersionIdOfTag(db, f.id, t)

\* a file with a layer sealed as v1 holding a chunk, a layer sealed later and
\* an active layer holding a chunk
C35_Witness ==
    \E f \in db.files :
        /\ VersionExistsForFile(db, f.id, "v1")
        /\ VersionExistsForFile(db, f.id, "v2")
        /\ VersionIdOfTag(db, f.id, "v1") < VersionIdOfTag(db, f.id, "v2")
        /\ \E i, j \in 1..Len(db.chunks) :
              /\ LayerRow(db, db.chunks[i].snapshot_layer_id).file_id = f.id
              /\ LayerRow(db, db.chunks[i].snapshot_layer_id).active = 1
              /\ LayerRow(db, db.chunks[j].snapshot_layer_id).file_id = f.id
              /\ LayerRow(db, db.chunks[j].snapshot_layer_id).version_id
                    = VersionIdOfTag(db, f.id, "v1")

----------------------------------------------------------------------------
(* Properties, one caller and a reliable store (Spec): the ranges of an image *)

\* the ids of the layers a read of the file at the version uses ("": all)
LayerIdsAt(d, fileID, version) ==
    LET layers == SelectLayers(LoadLayersByFileID(d, fileID), version)
    IN {layers[k].ID : k \in 1..Len(layers)}

\* the file_range of a chunk row as the readers parse it
FileRangeOf(c) == ParseRange(c.file_range).r

\* C36: in every reachable state, and for every version of a file as for the
\* read without a version, the file_ranges of the visible chunks cover
\* [0, virtual size) without a hole: every offset below the virtual size lies
\* in at least one visible chunk.
C36_RangesCoverImage ==
    \A f \in db.files :
        \A v \in {"", "v1"} :
            (v = "" \/ VersionExistsForFile(db, f.id, v))
            => LET vis == VisibleChunks(db, LayerIdsAt(db, f.id, v))
                   size == Max({FileRangeOf(db.chunks[i])[2] : i \in vis} \cup {0})
               IN \A k \in 0..(size - 1) :
                     \E i \in vis :
                        /\ FileRangeOf(db.chunks[i])[1] <= k
                        /\ k < FileRangeOf(db.chunks[i])[2]

\* a sealed version and an active layer whose chunk starts above offset 0,
\* after a write was rejected for starting beyond the end
C36_Witness ==
    /\ ret.op = "WriteFile"
    /\ ret.err = "write offset is beyond file size"
    /\ \E f \in db.files :
          /\ VersionExistsForFile(db, f.id, "v1")
          /\ \E i \in VisibleChunks(db, LayerIdsAt(db, f.id, "v1")) :
                Len(db.chunks[i].data) > 0
          /\ \E i \in ChunkIdx(db) :
                /\ db.chunks[i].snapshot_layer_id = SelectActiveLayer(db, f.id)
                /\ FileRangeOf(db.chunks[i])[1] > 0

----------------------------------------------------------------------------
(* Properties, one caller and a reliable store (Spec): the size of a file    *)

\* C37: in every reachable state SizeOf(name) equals the length of the image
\* ReadFile builds when no version is given: ReadFile(name, 0, SizeOf(name))
\* returns exactly SizeOf(name) bytes, and the size the write guard compares
\* against is that same length.
C37_SizeIsImageLength ==
    \A n \in Names :
        FileExists(db, n)
        => \A ord \in ChunkOrders(db) :
              LET id == GetFileIDByName(db, n)
                  image == BuildImage(db, ord, LoadLayersByFileID(db, id))
                  r == ReadFileRun(db, n, 0, SizeOf(db, n), "", 0, ord)
              IN /\ SizeOf(db, n) = Len(image)
                 /\ r.err = ""
                 /\ Len(r.out) = SizeOf(db, n)
                 /\ \A o \in {Len(image), Len(image) + 1} :
                       (WriteFileRun(db, n, <<1>>, o, 0).err
                           = "write offset is beyond file size")
                       <=> o > Len(image)

\* a file of at least two bytes with a chunk in a sealed layer and a chunk in
\* the active layer that ends the image
C37_Witness ==
    \E f \in db.files :
        /\ SizeOf(db, f.name) >= 2
        /\ \E i, j \in ChunkIdx(db) :
              /\ LayerRow(db, db.chunks[i].snapshot_layer_id).file_id = f.id
              /\ LayerRow(db, db.chunks[i].snapshot_layer_id).active = 0
              /\ db.chunks[j].snapshot_layer_id = SelectActiveLayer(db, f.id)
              /\ EndOffset(db.chunks[j]) = SizeOf(db, f.name)
              /\ EndOffset(db.chunks[i]) < SizeOf(db, f.name)

----------------------------------------------------------------------------
(* Properties, one caller and a reliable store (Spec): version rows          *)

\* C38: in every reachable state every version row is carried by exactly one
\* layer: no Checkpoint, successful or failed, and no DeleteFile leaves a
\* version row that labels no layer.
C38_VersionCarriedByOneLayer ==
    \A v \in db.versions :
        Cardinality({l \in db.layers : l.version_id = v.id}) = 1

----------------------------------------------------------------------------
(* One caller and a reliable store, the empty string among the version tags  *)
(* (SpecT)                                                                   *)

NextT == NextOps([fail |-> {0}, names |-> {"a"}, tags |-> {"", "v1"},
                  reads |-> {<<0, MaxRead>>},
                  data |-> DataM, offs |-> 0..MaxOffR, sizes |-> 0..MaxNewSizeM,
                  chunks |-> MaxChunksM, files |-> MaxFileId])

SpecT == Init /\ [][NextT]_vars

\* the layers of the file sealed by the checkpoint that made version vid or by
\* an earlier one, in id order
SealedUpTo(d, fileID, vid) ==
    SelectSeq(LoadLayersByFileID(d, fileID),
              LAMBDA l : l.VersionID # 0 /\ l.VersionID <= vid)

\* C39: every tag with which Checkpoint succeeds can afterwards be read:
\* ReadFile with that tag as its version returns, without error, the image of
\* the layers sealed up to that checkpoint and excludes later layers, for
\* every tag value that Checkpoint accepts, the empty string included.
C39_EveryTagReadable ==
    \A vid \in 1..Len(snap) : \A n \in Names :
        GetFileIDByName(db, n) = snap[vid].file
        => \A ord \in ChunkOrders(db) :
              LET r == ReadFileRun(db, n, 0, MaxRead, snap[vid].tag, 0, ord)
              IN /\ r.err = ""
                 /\ r.out = SliceOf(BuildImage(db, ord,
                                       SealedUpTo(db, snap[vid].file, vid)), 0, MaxRead)

----------------------------------------------------------------------------
(* Concurrent callers under fair scheduling (SpecL).  A call to WriteFile,   *)
(* ReadFile, Checkpoint or GetAllFiles is first invoked and then waits in     *)
(* sm.mu.Lock() or sm.mu.RLock(); a caller that has been invoked keeps       *)
(* running, and sync.RWMutex lets no waiting caller starve.                  *)

MaxChunksL == 1     \* chunk rows of the store

\* the positions of a caller inside sm.mu.Lock() or sm.mu.RLock()
LockPcs == {"wr_lock", "rd_lock", "cp_lock", "ga_lock"}

\* the caller holds one side of sm.mu
Holds(p) == mu.w = p \/ p \in mu.r

\* a call has been made and has reached sm.mu.Lock() or sm.mu.RLock()
WriteFile_Invoke(p, filename, data, offset) ==
    /\ pc[p] = "idle"
    /\ Len(db.chunks) < MaxChunksL
    /\ Step(p, db, mu, "wr_lock", Call("WriteFile", filename, offset, Len(data), data, ""))

ReadFile_Invoke(p, filename, offset, size, version) ==
    /\ pc[p] = "idle"
    /\ Step(p, db, mu, "rd_lock", Call("ReadFile", filename, offset, size, <<>>, version))

Checkpoint_Invoke(p, filename, version) ==
    /\ pc[p] = "idle"
    /\ Step(p, db, mu, "cp_lock", Call("Checkpoint", filename, 0, 0, <<>>, version))

GetAllFiles_Invoke(p) ==
    /\ pc[p] = "idle"
    /\ Step(p, db, mu, "ga_lock", Call("GetAllFiles", "", 0, 0, <<>>, ""))

\* WriteFile from the return of sm.mu.Lock() to calculateRanges
WriteFile_Lock(p) == WriteFile_Read(p, loc[p], "wr_lock")

\* ReadFile from the return of sm.mu.RLock() to GetFileIDByName
ReadFile_Lock(p) ==
    /\ pc[p] = "rd_lock"
    /\ CanRLock
    /\ LET c == loc[p]
           id == GetFileIDByName(db, c.name)
       IN IF id = 0
          THEN Step(p, db, mu, "idle", Failed(c, "file not found"))
          ELSE Step(p, db, RLocked(p), IF c.tag # "" THEN "rd_exists" ELSE "rd_layers",
                    [c EXCEPT !.fileID = id])

\* Checkpoint from the return of sm.mu.Lock() to the query of the active layer
Checkpoint_Lock(p) ==
    /\ pc[p] = "cp_lock"
    /\ CanLock
    /\ LET c == loc[p]
           fileID == GetFileIDByName(db, c.name)
           layerID == SelectActiveLayer(db, fileID)
       IN IF layerID = 0
          THEN Step(p, db, mu, "idle", Failed(c, "failed to query active layer"))
          ELSE Step(p, db, Locked(p), "cp_commit",
                    [c EXCEPT !.fileID = fileID, !.layerID = layerID])

\* GetAllFiles: sm.mu.RLock(), the query and the deferred sm.mu.RUnlock()
GetAllFiles_Lock(p) ==
    /\ pc[p] = "ga_lock"
    /\ CanRLock
    /\ Step(p, db, mu, "idle", loc[p])

\* Truncate of a store that has room for its chunk
Truncate_Invoke(p, filename, newSize) ==
    /\ Len(db.chunks) < MaxChunksL
    /\ Truncate_Begin(p, filename, newSize)

\* the steps a caller takes once its call has been invoked
Running(p) ==
    \/ InsertFile_Layer(p)
    \/ WriteFile_Lock(p)
    \/ WriteFile_Insert(p)
    \/ ReadFile_Lock(p)
    \/ ReadFile_Exists(p)
    \/ ReadFile_Layers(p)
    \/ ReadFile_Chunks(p)
    \/ Checkpoint_Lock(p)
    \/ Checkpoint_Commit(p)
    \/ GetAllFiles_Lock(p)
    \/ DeleteFile_Commit(p)
    \/ Truncate_Size(p)
    \/ Truncate_Write(p)

NextL ==
    \E p \in Callers :
        \/ InsertFile_Row(p, "a")
        \/ WriteFile_Invoke(p, "a", Ramp(1, 1), 0)
        \/ \E v \in {"", "v1"} : ReadFile_Invoke(p, "a", 0, MaxRead, v)
        \/ Checkpoint_Invoke(p, "a", "v1")
        \/ GetAllFiles_Invoke(p)
        \/ DeleteFile_Begin(p, "a")
        \/ Truncate_Invoke(p, "a", 1)
        \/ Running(p)

\* the positions at which Running(p) has a step to take: a caller inside Lock
\* or RLock has one when the lock can be taken, a caller anywhere else in a
\* call always has one
Ready(p) ==
    /\ pc[p] # "idle"
    /\ pc[p] \in {"wr_lock", "cp_lock", "tr_write"} => CanLock
    /\ pc[p] \in {"rd_lock", "ga_lock", "tr_size"} => CanRLock

\* the steps of Running(p) as the positions show them: the caller leaves the
\* position it is at
Proceeds(p) ==
    /\ Ready(p)
    /\ \E x \in (LockPcs \cup ReadPcs \cup MutatorPcs \cup {"idle"}) \ {pc[p]} :
          pc' = [pc EXCEPT ![p] = x]

\* the scheduler runs every caller that can take a step, and a caller waiting
\* in Lock or RLock gets the lock when it is free again and again
FairL == \A p \in Callers : SF_pc(Proceeds(p))

SpecL == Init /\ [][NextL]_vars /\ FairL

----------------------------------------------------------------------------
(* Properties, concurrent callers under fair scheduling (SpecL)              *)

\* C40: no operation acquires the manager lock while it already holds it, and
\* every path, error paths included, releases it: under fair scheduling every
\* invoked operation (Truncate, which calls FileSize and then WriteFile,
\* included) eventually returns, and a caller that has returned holds neither
\* side of the lock, so the lock is free again once its holders have returned.
C40_EveryCallReturns ==
    \A p \in Callers :
        /\ (pc[p] # "idle") ~> (pc[p] = "idle")
        /\ [](pc[p] = "idle" => ~Holds(p))

\* a Truncate waits in the Lock of its WriteFile while the other caller holds
\* the exclusive side
C40_Witness ==
    \E p, q \in Callers :
        /\ pc[p] = "tr_write"
        /\ mu.w = q
        /\ pc[q] \in {"wr_insert", "cp_commit"}

====
